---------------------------- MODULE Spec2Model ----------------------------
(***************************************************************************)
(* A model of the file-backed plugin cache: the PluginCache facade         *)
(* (cache.ts), the manifest bookkeeping and the cleanup functions          *)
(* (cleanup.ts).                                                           *)
(*                                                                         *)
(* The disk is a record [files, manifest, dirs, readOnly].  A location     *)
(* <<ns, safe>>                                                            *)
(* stands for path.join(cacheDir, ns, safe + ".json").  Every operation of *)
(* the program is an operator from a disk to a disk and a result, built    *)
(* from the same file-system steps the code performs, in the code's order. *)
(* Spec runs the operations one at a time (each operation is synchronous   *)
(* inside one process up to its return).  The file system of Spec does not *)
(* fail by itself: a write fails only where the program's own earlier      *)
(* operation removed the directory it writes to.                           *)
(* SpecConc runs set, invalidate, clear and performCleanup in two         *)
(* processes, one file-system call at a time, in any interleaving.         *)
(* SpecInstance runs the operations of instances that are disabled,        *)
(* enabled and purged between calls.  SpecFault runs them on a cache       *)
(* directory with a truncated manifest.json or without write permission.   *)
(* SpecFlight runs getOrFetch in two processes, one step at a time.        *)
(* SpecStale runs set with values of every size on instances whose         *)
(* directories clearNamespace and clearAll remove.                         *)
(***************************************************************************)
EXTENDS Integers, Sequences, FiniteSets, TLC

(***************************************************************************)
(* Bounds of the model.                                                    *)
(***************************************************************************)
\* The clock (milliseconds since the epoch) runs from 0 to MaxTime.
MaxTime == 2
\* The number of operations a behaviour calls.
MaxOps == 3
\* The operations the two concurrent processes call, in all.
MaxCalls == 3
\* The operations called on instances that live through purges and
\* disable() / enable().
MaxInstanceOps == 4
\* The budget a fresh manifest gets (500 MiB in the code), scaled down.
DEFAULT_MAX_SIZE == 6
\* config.maxEntrySize of the two PluginCache instances.
MaxEntrySizeA == 2
MaxEntrySizeB == 5
\* DEFAULT_SWR of cleanup.ts and cli.ts (24 hours), on the model's clock.
DEFAULT_SWR == 2

Namespaces == {"A", "B"}

\* A logical key is a sequence of characters.
KeyK == <<"k">>
KeySlash == <<"a", "/", "b">>
KeyUnder == <<"a", "_", "b">>
Keys == {KeyK, KeySlash}

\* The values callers cache: JSON numbers.
Values == {7, 123, 12345}

\* new PluginCache(config): one instance per namespace.
Config(ns) ==
  IF ns = "A"
  THEN [defaultTTL |-> 1, defaultSWR |-> 2, maxEntrySize |-> MaxEntrySizeA]
  ELSE [defaultTTL |-> 1, defaultSWR |-> 0, maxEntrySize |-> MaxEntrySizeB]

\* A value that may be absent (undefined, null, no such file) is a sequence:
\* None when absent, Some(x) when present.
None == <<>>
Some(x) == <<x>>
\* a ?? b
OrElse(a, b) == IF a # None THEN a[1] ELSE b

\* options.ttl of set / getOrFetch, options.staleWhileRevalidate of get.
TTLOptions == {None, Some(0)}
\* options.ttl of get.
GetTTLOptions == {None, Some(0), Some(2)}
SWROptions == {None, Some(0)}

MANIFEST_VERSION == 1
\* CLEANUP_THRESHOLD = 0.9 and CLEANUP_TARGET = 0.7 as fractions <<num, den>>.
CLEANUP_THRESHOLD == <<9, 10>>
CLEANUP_TARGET == <<7, 10>>

(***************************************************************************)
(* Conversions.                                                            *)
(***************************************************************************)
Digit(d) == CASE d = 0 -> "0" [] d = 1 -> "1" [] d = 2 -> "2" [] d = 3 -> "3"
              [] d = 4 -> "4" [] d = 5 -> "5" [] d = 6 -> "6" [] d = 7 -> "7"
              [] d = 8 -> "8" [] d = 9 -> "9"

DigitValue(c) == CHOOSE d \in 0..9 : Digit(d) = c

RECURSIVE JSONStringify(_)
\* JSON.stringify of a non-negative integer: its decimal digits.
JSONStringify(n) ==
  IF n < 10 THEN <<Digit(n)>>
  ELSE Append(JSONStringify(n \div 10), Digit(n % 10))

RECURSIVE JSONParse(_)
\* JSON.parse of a string of decimal digits.
JSONParse(s) ==
  IF Len(s) = 1 THEN DigitValue(s[1])
  ELSE 10 * JSONParse(SubSeq(s, 1, Len(s) - 1)) + DigitValue(s[Len(s)])

\* Buffer.byteLength(serialized, "utf-8"): one byte per ASCII character.
ByteLength(s) == Len(s)

\* Date.prototype.toISOString and new Date(iso).getTime().
ToISOString(t) == [iso |-> t]
DateOf(s) == s.iso

SafeChars == {"a", "b", "k", "_", "-"}
\* key.replace(/[^a-zA-Z0-9_-]/g, "_")
Sanitize(key) == [i \in 1..Len(key) |-> IF key[i] \in SafeChars THEN key[i] ELSE "_"]

\* getFilePath(key) of the instance of namespace ns.
GetFilePath(ns, key) == <<ns, Sanitize(key)>>

Locs == {GetFilePath(ns, key) : ns \in Namespaces, key \in Keys}

(***************************************************************************)
(* The disk: files, the manifest file and the namespace directories.       *)
(***************************************************************************)
\* What a path holds when fs.existsSync answers false for it.
NoFile == None

\* getManifest's answer when there is no manifest file (or it fails to parse).
EmptyManifest ==
  [version |-> MANIFEST_VERSION, totalSize |-> 0, maxSize |-> DEFAULT_MAX_SIZE,
   entries |-> <<>>, lastCleanup |-> None]

\* manifest.entries is a JavaScript object: its keys keep their insertion
\* order through JSON.stringify and JSON.parse, and Object.values and
\* Object.entries list them in that order.  It is modelled as the sequence of
\* its rows in insertion order.
HasRow(m, loc) == \E i \in 1..Len(m.entries) : m.entries[i].filePath = loc
RowIndex(m, loc) == CHOOSE i \in 1..Len(m.entries) : m.entries[i].filePath = loc
Row(m, loc) == m.entries[RowIndex(m, loc)]

\* manifest.entries[filePath] = row: in place for a known key, else appended.
PutRow(entries, row) ==
  IF \E i \in 1..Len(entries) : entries[i].filePath = row.filePath
  THEN [i \in 1..Len(entries) |->
          IF entries[i].filePath = row.filePath THEN row ELSE entries[i]]
  ELSE Append(entries, row)

\* delete manifest.entries[filePath]
DeleteRow(entries, loc) == SelectSeq(entries, LAMBDA r : r.filePath # loc)

\* manifest.json between the open with O_TRUNC and the write of
\* fs.writeFileSync: no bytes, which JSON.parse rejects.
Truncated == [bytes |-> 0]

\* JSON.parse(content) returns a manifest.
Parses(content) == "version" \in DOMAIN content

\* What an uncaught JSON.parse of cleanup.ts and cli.ts throws.
SyntaxError == [error |-> "SyntaxError"]

\* getManifest: the empty manifest when manifest.json is missing or its
\* content does not parse.
GetManifest(d) ==
  IF d.manifest = NoFile THEN EmptyManifest
  ELSE IF Parses(d.manifest[1]) THEN d.manifest[1] ELSE EmptyManifest

\* saveManifest throws: fs.writeFileSync(tempPath, ...) cannot create the
\* temporary file in cacheDir.
SaveFails(d) == d.readOnly

\* saveManifest: write the temporary file, rename it over manifest.json; when
\* that fails the temporary file is removed and manifest.json is as it was.
SaveManifest(d, m) == IF SaveFails(d) THEN d ELSE [d EXCEPT !.manifest = Some(m)]

\* fs.writeFileSync(manifestPath, ...) of cleanup.ts: the file is opened with
\* O_TRUNC, then the bytes are written in place.
OpenTruncate(d) == [d EXCEPT !.manifest = Some(Truncated)]
WriteManifest(d, m) == [d EXCEPT !.manifest = Some(m)]

\* fs.writeFileSync(filePath, JSON.stringify(entry)), the directory existing.
WriteFile(d, loc, entry) == [d EXCEPT !.files[loc] = Some(entry)]

\* JSON.parse(fs.readFileSync(filePath, "utf-8"))
ReadFile(d, loc) == d.files[loc][1]

\* fs.existsSync(filePath)
Exists(d, loc) == d.files[loc] # NoFile

\* if (fs.existsSync(filePath)) fs.unlinkSync(filePath)
Unlink(d, loc) == [d EXCEPT !.files[loc] = NoFile]

\* ensureDirectories of the instance of namespace ns.
EnsureDirectories(d, ns) == [d EXCEPT !.dirs = @ \cup {ns}]

\* fs.rmSync(namespaceDir, {recursive: true, force: true})
RmDir(d, ns) ==
  [d EXCEPT !.dirs = @ \ {ns},
            !.files = [loc \in Locs |-> IF loc[1] = ns THEN NoFile ELSE @[loc]]]

(***************************************************************************)
(* cleanup.ts                                                              *)
(***************************************************************************)
RECURSIVE InsertByAccess(_, _)
\* Insert row r after every row of the sorted sequence s that is not younger.
InsertByAccess(s, r) ==
  IF s = <<>> THEN <<r>>
  ELSE IF DateOf(Head(s).lastAccessedAt) <= DateOf(r.lastAccessedAt)
       THEN <<Head(s)>> \o InsertByAccess(Tail(s), r)
       ELSE <<r>> \o s

\* A cleanup that takes the entries in the order of the manifest.
ManifestOrder(entries) == entries

RECURSIVE SortByAccess(_)
\* Object.values(manifest.entries).sort((a, b) => aTime - bTime): a stable
\* sort, oldest lastAccessedAt first.
SortByAccess(entries) ==
  IF entries = <<>> THEN <<>>
  ELSE InsertByAccess(SortByAccess(SubSeq(entries, 1, Len(entries) - 1)),
                      entries[Len(entries)])

\* A cleanup that stops at the threshold instead of the target.
StopsAtThreshold(size, maxSize) ==
  size * CLEANUP_THRESHOLD[2] <= maxSize * CLEANUP_THRESHOLD[1]

\* currentSize <= targetSize, with targetSize = maxSize * CLEANUP_TARGET.
AtOrBelowTarget(size, maxSize) ==
  size * CLEANUP_TARGET[2] <= maxSize * CLEANUP_TARGET[1]

\* A trigger that fires at the target instead of the threshold.
BelowTarget(size, maxSize) ==
  size * CLEANUP_TARGET[2] < maxSize * CLEANUP_TARGET[1]

\* manifest.totalSize < threshold, with threshold = maxSize * CLEANUP_THRESHOLD.
BelowThreshold(size, maxSize) ==
  size * CLEANUP_THRESHOLD[2] < maxSize * CLEANUP_THRESHOLD[1]

\* manifest.maxSize || DEFAULT_MAX_SIZE
MaxSizeOf(m) == IF m.maxSize = 0 THEN DEFAULT_MAX_SIZE ELSE m.maxSize

RECURSIVE EvictLoop(_, _, _)
\* The for loop of performCleanup over the sorted candidates; acc carries the
\* disk's files, the manifest's rows and the running counters.
EvictLoop(candidates, acc, maxSize) ==
  IF candidates = <<>> \/ AtOrBelowTarget(acc.currentSize, maxSize) THEN acc
  ELSE LET entry == Head(candidates)
       IN EvictLoop(Tail(candidates),
                    [files |-> [acc.files EXCEPT ![entry.filePath] = NoFile],
                     entries |-> DeleteRow(acc.entries, entry.filePath),
                     currentSize |-> acc.currentSize - entry.size,
                     bytesFreed |-> acc.bytesFreed + entry.size,
                     entriesRemoved |-> acc.entriesRemoved + 1],
                    maxSize)

\* performCleanup(cacheDir, manifest) at time t.
PerformCleanup(d, manifest, t) ==
  LET maxSize == MaxSizeOf(manifest)
      acc == EvictLoop(SortByAccess(manifest.entries),
                       [files |-> d.files, entries |-> manifest.entries,
                        currentSize |-> manifest.totalSize,
                        bytesFreed |-> 0, entriesRemoved |-> 0],
                       maxSize)
      m2 == [manifest EXCEPT !.entries = acc.entries,
                             !.totalSize = acc.currentSize,
                             !.lastCleanup = Some(ToISOString(t))]
  IN [disk |-> WriteManifest([d EXCEPT !.files = acc.files], m2),
      result |-> [entriesRemoved |-> acc.entriesRemoved,
                  bytesFreed |-> acc.bytesFreed,
                  newTotalSize |-> acc.currentSize],
      arg |-> Some(manifest)]

\* performCleanup(cacheDir) called without a manifest.
PerformCleanupNoArg(d, t) ==
  IF d.manifest = NoFile
  THEN [disk |-> d,
        result |-> [entriesRemoved |-> 0, bytesFreed |-> 0, newTotalSize |-> 0],
        arg |-> None]
  ELSE IF ~Parses(d.manifest[1])
  THEN [disk |-> d, result |-> SyntaxError, arg |-> None]
  ELSE PerformCleanup(d, d.manifest[1], t)

\* cleanupIfNeeded(cacheDir) at time t; arg is the manifest handed to
\* performCleanup, None when performCleanup is not called.
CleanupIfNeeded(d, t) ==
  IF d.manifest = NoFile THEN [disk |-> d, result |-> None, arg |-> None]
  ELSE IF ~Parses(d.manifest[1])
  THEN [disk |-> d, result |-> SyntaxError, arg |-> None]
  ELSE LET manifest == d.manifest[1]
       IN IF BelowThreshold(manifest.totalSize, MaxSizeOf(manifest))
          THEN [disk |-> d, result |-> None, arg |-> None]
          ELSE PerformCleanup(d, manifest, t)

(***************************************************************************)
(* cache.ts: the operations of the PluginCache instance of namespace ns.   *)
(* dis is the instance's disabled flag, t the value of new Date().         *)
(***************************************************************************)
\* The result of get on a miss; data is None for null, Some(v) for v.
Miss ==
  [data |-> None, hit |-> FALSE, stale |-> FALSE, needsRevalidation |-> TRUE,
   entry |-> None]

\* An invalidate that does not look at the disabled flag.
InvalidateThoughDisabled(d, ns, dis, key) ==
  LET filePath == GetFilePath(ns, key)
  IN IF ~Exists(d, filePath) THEN [disk |-> d, result |-> FALSE]
     ELSE LET d1 == Unlink(d, filePath)
              manifest == GetManifest(d1)
          IN [disk |-> SaveManifest(d1,
                         [manifest EXCEPT
                            !.totalSize = @ - ReadFile(d, filePath).size,
                            !.entries = DeleteRow(@, filePath)]),
              result |-> TRUE]

\* invalidate(key)
Invalidate(d, ns, dis, key) ==
  IF dis THEN [disk |-> d, result |-> FALSE]
  ELSE LET filePath == GetFilePath(ns, key)
       IN IF ~Exists(d, filePath) THEN [disk |-> d, result |-> FALSE]
          ELSE LET entry == ReadFile(d, filePath)
                   d1 == Unlink(d, filePath)
                   manifest == GetManifest(d1)
               IN IF HasRow(manifest, filePath)
                  THEN [disk |-> SaveManifest(d1,
                                   [manifest EXCEPT
                                      !.totalSize = @ - entry.size,
                                      !.entries = DeleteRow(@, filePath)]),
                        \* catch { return false } when saveManifest throws
                        result |-> ~SaveFails(d1)]
                  ELSE [disk |-> d1, result |-> TRUE]

\* const isExpired = now > expiresAt
IsExpired(t, expiresAt) == t > expiresAt

\* A get that ignores the stale-while-revalidate window.
WithinTTLOnly(t, expiresAt, swr) == t <= expiresAt

\* const isWithinSWR = now <= swrExpiresAt, swrExpiresAt being expiresAt + swr
IsWithinSWR(t, expiresAt, swr) == t <= expiresAt + swr

\* A get that leaves lastAccessedAt as it is.
TouchNothing(entry, t) == entry

\* entry.lastAccessedAt = now.toISOString()
Touch(entry, t) == [entry EXCEPT !.lastAccessedAt = ToISOString(t)]

\* A get that counts the ttl of its options from the creation of the entry.
ExpiresFromCreation(entry, ttl) == DateOf(entry.createdAt) + ttl

\* const expiresAt = new Date(entry.expiresAt); the ttl that get reads from
\* its options is not used.
ExpiresAt(entry, ttl) == DateOf(entry.expiresAt)

\* get(key, {ttl, staleWhileRevalidate})
Get(d, ns, dis, key, ttlOpt, swrOpt, t) ==
  IF dis THEN [disk |-> d, result |-> Miss]
  ELSE LET filePath == GetFilePath(ns, key)
       IN IF ~Exists(d, filePath) THEN [disk |-> d, result |-> Miss]
          ELSE LET content == ReadFile(d, filePath)
                   ttl == OrElse(ttlOpt, Config(ns).defaultTTL)
                   expiresAt == ExpiresAt(content, ttl)
                   swr == OrElse(swrOpt, Config(ns).defaultSWR)
                   entry == Touch(content, t)
                   d1 == WriteFile(d, filePath, entry)
                   manifest == GetManifest(d1)
                   d2 == IF HasRow(manifest, filePath)
                         THEN SaveManifest(d1,
                                [manifest EXCEPT
                                   !.entries[RowIndex(manifest, filePath)].lastAccessedAt =
                                      entry.lastAccessedAt])
                         ELSE d1
                   isExpired == IsExpired(t, expiresAt)
                   isWithinSWR == IsWithinSWR(t, expiresAt, swr)
               IN IF HasRow(manifest, filePath) /\ SaveFails(d1)
                  THEN [disk |-> d1, result |-> Miss]   \* catch: a miss
                  ELSE IF isExpired /\ ~isWithinSWR
                  THEN [disk |-> Invalidate(d2, ns, dis, key).disk, result |-> Miss]
                  ELSE [disk |-> d2,
                        result |-> [data |-> Some(JSONParse(entry.data)), hit |-> TRUE,
                                    stale |-> isExpired,
                                    needsRevalidation |-> isExpired,
                                    entry |-> Some(entry)]]

\* A set that forgets the size of the row it replaces.
NewTotalSizeForgetsOld(totalSize, oldSize, size) == totalSize + size

\* manifest.totalSize - oldSize + size
NewTotalSize(totalSize, oldSize, size) == totalSize - oldSize + size

\* const entry = {data, createdAt, lastAccessedAt, expiresAt, size}
NewEntry(serialized, size, ttl, t) ==
  [data |-> serialized,
   createdAt |-> ToISOString(t),
   lastAccessedAt |-> ToISOString(t),
   expiresAt |-> ToISOString(t + ttl),
   size |-> size]

\* The manifest row set builds for the entry.
NewRow(ns, key, entry) ==
  [filePath |-> GetFilePath(ns, key), namespace |-> ns, key |-> key,
   size |-> entry.size,
   lastAccessedAt |-> entry.lastAccessedAt,
   expiresAt |-> entry.expiresAt]

\* manifest.entries[filePath] = row and the adjusted totalSize.
WithRow(manifest, row) ==
  LET oldSize == IF HasRow(manifest, row.filePath)
                 THEN Row(manifest, row.filePath).size ELSE 0
  IN [manifest EXCEPT
        !.entries = PutRow(@, row),
        !.totalSize = NewTotalSize(manifest.totalSize, oldSize, row.size)]

\* A set that takes an entry of any size.
NeverExceeds(size, maxEntrySize) == FALSE

\* A set that lets through an entry one byte above the maximum.
ExceedsByTwo(size, maxEntrySize) == size > maxEntrySize + 1

\* if (size > this.maxEntrySize)
ExceedsMaxSize(size, maxEntrySize) == size > maxEntrySize

\* A set that writes the entry file before it saves the manifest.
SetWritesFirst(d, ns, dis, key, data, ttlOpt, t) ==
  LET serialized == JSONStringify(data)
      size == ByteLength(serialized)
      entry == NewEntry(serialized, size, OrElse(ttlOpt, Config(ns).defaultTTL), t)
      d1 == WriteFile(d, GetFilePath(ns, key), entry)
      d2 == SaveManifest(d1, WithRow(GetManifest(d1), NewRow(ns, key, entry)))
      c == CleanupIfNeeded(d2, t)
  IN IF dis THEN [disk |-> d, outcome |-> "disabled", cleanup |-> None]
     ELSE IF ExceedsMaxSize(size, Config(ns).maxEntrySize)
     THEN [disk |-> d, outcome |-> "skipped", cleanup |-> None]
     ELSE IF ns \notin d.dirs
     THEN [disk |-> d, outcome |-> "ENOENT", cleanup |-> None]
     ELSE IF SaveFails(d1)
     THEN [disk |-> d1, outcome |-> "EACCES", cleanup |-> None]
     ELSE [disk |-> c.disk, outcome |-> "ok", cleanup |-> c.arg]

\* set(key, data, {ttl}).  outcome: "disabled" and "skipped" are the two early
\* returns, "ENOENT" is fs.writeFileSync throwing because the namespace
\* directory is gone, "ok" the normal return.  cleanup is the manifest handed
\* to performCleanup, None when it was not called.
Set(d, ns, dis, key, data, ttlOpt, t) ==
  IF dis THEN [disk |-> d, outcome |-> "disabled", cleanup |-> None]
  ELSE LET serialized == JSONStringify(data)
           size == ByteLength(serialized)
       IN IF ExceedsMaxSize(size, Config(ns).maxEntrySize)
          THEN [disk |-> d, outcome |-> "skipped", cleanup |-> None]
          ELSE LET ttl == OrElse(ttlOpt, Config(ns).defaultTTL)
                   entry == NewEntry(serialized, size, ttl, t)
                   filePath == GetFilePath(ns, key)
                   manifest == GetManifest(d)
                   d1 == SaveManifest(d, WithRow(manifest, NewRow(ns, key, entry)))
               IN IF SaveFails(d)
                  THEN [disk |-> d, outcome |-> "EACCES", cleanup |-> None]
                  ELSE IF ns \notin d1.dirs
                  THEN [disk |-> d1, outcome |-> "ENOENT", cleanup |-> None]
                  ELSE LET c == CleanupIfNeeded(WriteFile(d1, filePath, entry), t)
                       IN [disk |-> c.disk, outcome |-> "ok", cleanup |-> c.arg]

\* How an asynchronous call ends: it resolves with a value or rejects with an
\* error.
Resolved(v) == [status |-> "resolved", value |-> Some(v), error |-> None]
Rejected(e) == [status |-> "rejected", value |-> None, error |-> Some(e)]

\* What the caller's producer does: resolve with a value, or reject.
FetchOutcomes == {Resolved(v) : v \in Values} \cup {Rejected("FetchError")}

\* A getOrFetch that never serves from the cache.
NeverServes(cached) == FALSE

\* if (cached.hit && !cached.stale) return cached.data
ServeFromCache(cached) == cached.hit /\ ~cached.stale

\* A getOrFetch that drops the entry of the key when the producer fails.
FetchAndSetDropsOnFailure(d, ns, dis, key, fetched, ttlOpt, t) ==
  IF fetched.status = "rejected"
  THEN [disk |-> Invalidate(d, ns, dis, key).disk, result |-> fetched,
        calls |-> <<"fetcher">>, cleanup |-> None]
  ELSE LET data == fetched.value[1]
           s == Set(d, ns, dis, key, data, ttlOpt, t)
       IN [disk |-> s.disk, result |-> Resolved(data),
           calls |-> <<"fetcher", "set">>, cleanup |-> s.cleanup]

\* const data = await fetcher(); await this.set(key, data, options);
\* return data, from disk d; fetched is how the call of fetcher ends.
FetchAndSet(d, ns, dis, key, fetched, ttlOpt, t) ==
  IF fetched.status = "rejected"
  THEN [disk |-> d, result |-> fetched, calls |-> <<"fetcher">>,
        cleanup |-> None]
  ELSE LET data == fetched.value[1]
           s == Set(d, ns, dis, key, data, ttlOpt, t)
       IN [disk |-> s.disk,
           result |-> IF s.outcome \in {"ENOENT", "EACCES"}
                      THEN Rejected(s.outcome) ELSE Resolved(data),
           calls |-> <<"fetcher", "set">>,
           cleanup |-> s.cleanup]

\* getOrFetch(key, fetcher, {ttl, staleWhileRevalidate, bypassCache}).  calls
\* lists the calls getOrFetch makes, in order; result is how getOrFetch ends.
GetOrFetch(d, ns, dis, key, fetched, ttlOpt, swrOpt, bypassCache, t) ==
  IF dis \/ bypassCache
  THEN IF dis
       THEN [disk |-> d, result |-> fetched, calls |-> <<"fetcher">>,
             cleanup |-> None]
       ELSE FetchAndSet(d, ns, dis, key, fetched, ttlOpt, t)
  ELSE LET cached == Get(d, ns, dis, key, ttlOpt, swrOpt, t)
       IN IF ServeFromCache(cached.result)
          THEN [disk |-> cached.disk, result |-> Resolved(cached.result.data[1]),
                calls |-> <<"get">>, cleanup |-> None]
          ELSE LET f == FetchAndSet(cached.disk, ns, dis, key, fetched, ttlOpt, t)
               IN [f EXCEPT !.calls = <<"get">> \o @]

\* A RegExp object of one pattern character: a literal character, or "."
\* for any character.  global is its g flag; lastIndex is where the next
\* test of a global RegExp starts.
RegExp(source, global) ==
  [source |-> source, global |-> global, lastIndex |-> 0]

\* The argument of invalidatePattern, of type string | RegExp.
StringPattern(source) == [string |-> Some(source), regex |-> None]
RegExpPattern(regex) == [string |-> None, regex |-> Some(regex)]

\* typeof pattern === "string" ? new RegExp(pattern) : pattern
ToRegExp(pattern) ==
  IF pattern.string # None THEN RegExp(pattern.string[1], FALSE)
  ELSE pattern.regex[1]

\* The positions of key, from 1, at which the pattern character matches.
MatchesAt(source, key) ==
  {i \in 1..Len(key) : source = "." \/ key[i] = source}

\* regex.test(key): whether it matched, and the RegExp object after the call.
\* Without the g flag the search starts at 0 and lastIndex stays; with it the
\* search starts at lastIndex, which becomes the end of the match, or 0 when
\* nothing matches.
RegexTest(regex, key) ==
  LET from == IF regex.global THEN regex.lastIndex ELSE 0
      hits == {i \in MatchesAt(regex.source, key) : i > from}
      first == CHOOSE i \in hits : \A j \in hits : i <= j
  IN IF hits = {}
     THEN [result |-> FALSE,
           regex |-> [regex EXCEPT !.lastIndex = IF regex.global THEN 0 ELSE @]]
     ELSE [result |-> TRUE,
           regex |-> [regex EXCEPT !.lastIndex = IF regex.global THEN first ELSE @]]

RECURSIVE InvalidateEach(_, _, _, _, _)
\* The for loop of invalidatePattern over the rows loaded at its start.
InvalidateEach(rows, d, ns, regex, count) ==
  IF rows = <<>> THEN [disk |-> d, result |-> count]
  ELSE LET entry == Head(rows)
       IN IF entry.namespace = ns
          THEN LET test == RegexTest(regex, entry.key)
                   r == Invalidate(d, ns, FALSE, entry.key)
               IN IF test.result
                  THEN InvalidateEach(Tail(rows), r.disk, ns, test.regex,
                                      IF r.result THEN count + 1 ELSE count)
                  ELSE InvalidateEach(Tail(rows), d, ns, test.regex, count)
          ELSE InvalidateEach(Tail(rows), d, ns, regex, count)

\* invalidatePattern(pattern)
InvalidatePattern(d, ns, dis, pattern) ==
  IF dis THEN [disk |-> d, result |-> 0]
  ELSE InvalidateEach(GetManifest(d).entries, d, ns, ToRegExp(pattern), 0)

\* A clear that takes the entries of every namespace.
AnyNamespace(entry, ns) == TRUE

\* A clear that finds no entry of its namespace.
NoNamespace(entry, ns) == FALSE

\* entry.namespace === namespace
InNamespace(entry, ns) == entry.namespace = ns

RECURSIVE ClearLoop(_, _, _)
\* The for loop of clear, clearNamespace and purgeExpired over the rows of the
\* loaded manifest: the rows that doomed selects lose their file and their row.
ClearLoop(rows, acc, doomed) ==
  IF rows = <<>> THEN acc
  ELSE LET entry == Head(rows)
       IN IF doomed[entry.filePath]
          THEN ClearLoop(Tail(rows),
                         [files |-> [acc.files EXCEPT ![entry.filePath] = NoFile],
                          entries |-> DeleteRow(acc.entries, entry.filePath),
                          bytesFreed |-> acc.bytesFreed + entry.size,
                          entriesRemoved |-> acc.entriesRemoved + 1],
                         doomed)
          ELSE ClearLoop(Tail(rows), acc, doomed)

\* clear()
Clear(d, ns, dis) ==
  IF dis THEN [disk |-> d, result |-> 0, threw |-> FALSE]
  ELSE LET manifest == GetManifest(d)
           acc == ClearLoop(manifest.entries,
                            [files |-> d.files, entries |-> manifest.entries,
                             bytesFreed |-> 0, entriesRemoved |-> 0],
                            [loc \in Locs |->
                               HasRow(manifest, loc) /\ InNamespace(Row(manifest, loc), ns)])
       IN [disk |-> SaveManifest([d EXCEPT !.files = acc.files],
                      [manifest EXCEPT !.entries = acc.entries,
                                       !.totalSize = @ - acc.bytesFreed]),
           result |-> acc.entriesRemoved,
           \* saveManifest is outside the loop's try: its error leaves clear
           threw |-> SaveFails(d)]

\* The counters of getStats before its loop.
NoStats(ns) ==
  [namespace |-> ns, entryCount |-> 0, totalSize |-> 0, expiredCount |-> 0,
   staleCount |-> 0, oldestEntry |-> None, newestEntry |-> None]

\* One turn of the loop of getStats and of getGlobalStats: entry is counted.
CountEntry(st, entry, swr, t) ==
  LET expiresAt == DateOf(entry.expiresAt)
      at == DateOf(entry.lastAccessedAt)
  IN [st EXCEPT
        !.entryCount = @ + 1,
        !.totalSize = @ + entry.size,
        !.expiredCount = IF t > expiresAt + swr THEN @ + 1 ELSE @,
        !.staleCount = IF t <= expiresAt + swr /\ t > expiresAt THEN @ + 1 ELSE @,
        !.oldestEntry = IF @ = None \/ at < DateOf(OrElse(@, entry.lastAccessedAt))
                        THEN Some(entry.lastAccessedAt) ELSE @,
        !.newestEntry = IF @ = None \/ at > DateOf(OrElse(@, entry.lastAccessedAt))
                        THEN Some(entry.lastAccessedAt) ELSE @]

RECURSIVE StatsLoop(_, _, _, _)
\* The for loop of getStats over Object.values(manifest.entries).
StatsLoop(rows, st, swr, t) ==
  IF rows = <<>> THEN st
  ELSE StatsLoop(Tail(rows),
                 IF InNamespace(Head(rows), st.namespace)
                 THEN CountEntry(st, Head(rows), swr, t) ELSE st,
                 swr, t)

\* getStats() at time t
GetStats(d, ns, dis, t) ==
  IF dis THEN NoStats(ns)
  ELSE StatsLoop(GetManifest(d).entries, NoStats(ns), Config(ns).defaultSWR, t)

\* keys(): the keys of the rows of the namespace, in manifest order
keys(d, ns, dis) ==
  IF dis THEN <<>>
  ELSE LET rows == SelectSeq(GetManifest(d).entries,
                             LAMBDA e : InNamespace(e, ns))
       IN [i \in 1..Len(rows) |-> rows[i].key]

(***************************************************************************)
(* cleanup.ts: the maintenance operations.                                 *)
(***************************************************************************)
NoCleanup == [entriesRemoved |-> 0, bytesFreed |-> 0, newTotalSize |-> 0]

\* A purge that forgets the stale-while-revalidate window.
PastTTL(t, expiresAt, swr) == t > DateOf(expiresAt)

\* now > swrExpiresAt, with swrExpiresAt = expiresAt + defaultSWR.
PastWindow(t, expiresAt, swr) == t > DateOf(expiresAt) + swr

\* purgeExpired(cacheDir, defaultSWR) at time t.
PurgeExpired(d, swr, t) ==
  IF d.manifest = NoFile THEN [disk |-> d, result |-> NoCleanup]
  ELSE IF ~Parses(d.manifest[1]) THEN [disk |-> d, result |-> SyntaxError]
  ELSE LET manifest == d.manifest[1]
           acc == ClearLoop(manifest.entries,
                            [files |-> d.files, entries |-> manifest.entries,
                             bytesFreed |-> 0, entriesRemoved |-> 0],
                            [loc \in Locs |->
                               HasRow(manifest, loc)
                               /\ PastWindow(t, Row(manifest, loc).expiresAt, swr)])
           m2 == [manifest EXCEPT !.entries = acc.entries,
                                  !.totalSize = @ - acc.bytesFreed,
                                  !.lastCleanup = Some(ToISOString(t))]
       IN [disk |-> WriteManifest([d EXCEPT !.files = acc.files], m2),
           result |-> [entriesRemoved |-> acc.entriesRemoved,
                       bytesFreed |-> acc.bytesFreed,
                       newTotalSize |-> m2.totalSize]]

\* clearNamespace(cacheDir, namespace)
ClearNamespace(d, ns) ==
  IF d.manifest = NoFile THEN [disk |-> d, result |-> NoCleanup]
  ELSE IF ~Parses(d.manifest[1]) THEN [disk |-> d, result |-> SyntaxError]
  ELSE LET manifest == d.manifest[1]
           acc == ClearLoop(manifest.entries,
                            [files |-> d.files, entries |-> manifest.entries,
                             bytesFreed |-> 0, entriesRemoved |-> 0],
                            [loc \in Locs |->
                               HasRow(manifest, loc) /\ InNamespace(Row(manifest, loc), ns)])
           m2 == [manifest EXCEPT !.entries = acc.entries,
                                  !.totalSize = @ - acc.bytesFreed]
       IN [disk |-> RmDir(WriteManifest([d EXCEPT !.files = acc.files], m2), ns),
           result |-> [entriesRemoved |-> acc.entriesRemoved,
                       bytesFreed |-> acc.bytesFreed,
                       newTotalSize |-> m2.totalSize]]

RECURSIVE RmDirs(_, _)
\* The loop of clearAll over the directories of cacheDir.
RmDirs(d, nss) ==
  IF nss = {} THEN d
  ELSE LET ns == CHOOSE x \in nss : TRUE IN RmDirs(RmDir(d, ns), nss \ {ns})

\* A clearAll that purges one namespace only.
ClearAllOfA(d, t) == ClearNamespace(d, "A")

\* clearAll(cacheDir) at time t.
ClearAll(d, t) ==
  IF d.manifest = NoFile THEN [disk |-> d, result |-> NoCleanup]
  ELSE IF ~Parses(d.manifest[1]) THEN [disk |-> d, result |-> SyntaxError]
  ELSE LET manifest == d.manifest[1]
           \* the loop unlinks every row's file and keeps no row
           acc == ClearLoop(manifest.entries,
                            [files |-> d.files, entries |-> manifest.entries,
                             bytesFreed |-> 0, entriesRemoved |-> 0],
                            [loc \in Locs |-> TRUE])
           newManifest == [version |-> manifest.version, totalSize |-> 0,
                           maxSize |-> manifest.maxSize, entries |-> <<>>,
                           lastCleanup |-> Some(ToISOString(t))]
       IN [disk |-> RmDirs(WriteManifest([d EXCEPT !.files = acc.files], newManifest),
                           d.dirs),
           result |-> [entriesRemoved |-> acc.entriesRemoved,
                       bytesFreed |-> acc.bytesFreed,
                       newTotalSize |-> 0]]

(***************************************************************************)
(* cli.ts                                                                  *)
(***************************************************************************)
\* getGlobalStats(cacheDir) at time t.  byNamespace has a key for every
\* namespace that has a row.
GetGlobalStats(d, t) ==
  IF d.manifest = NoFile
  THEN [totalEntries |-> 0, totalSize |-> 0, maxSize |-> DEFAULT_MAX_SIZE,
        usagePercent |-> <<0, 1>>, byNamespace |-> <<>>, lastCleanup |-> None]
  ELSE IF ~Parses(d.manifest[1]) THEN SyntaxError
  ELSE LET manifest == d.manifest[1]
           present == {manifest.entries[i].namespace : i \in 1..Len(manifest.entries)}
       IN [totalEntries |-> Len(manifest.entries),
           totalSize |-> manifest.totalSize,
           maxSize |-> manifest.maxSize,
           \* (totalSize / maxSize) * 100, as a fraction
           usagePercent |-> <<manifest.totalSize * 100, manifest.maxSize>>,
           byNamespace |-> [ns \in present |->
                              StatsLoop(manifest.entries, NoStats(ns), DEFAULT_SWR, t)],
           lastCleanup |-> manifest.lastCleanup]

(***************************************************************************)
(* The state machine: one process, operations one at a time.               *)
(***************************************************************************)
VARIABLES
  files,     \* location -> the entry stored in the file, or NoFile
  manifest,  \* the content of manifest.json, or NoFile
  dirs,      \* the namespaces whose directory exists
  readOnly,  \* cacheDir takes no new file: saveManifest fails
  disabled,  \* namespace -> the disabled flag of its PluginCache instance
  now,       \* the clock
  nops,      \* the number of operations called so far
  last,      \* the last operation: its name, target, result and calls
  pc,        \* process -> where it stands in the operation it runs
  locals     \* process -> the local variables of the operation it runs

vars == <<files, manifest, dirs, readOnly, disabled, now, nops, last, pc, locals>>

Disk ==
  [files |-> files, manifest |-> manifest, dirs |-> dirs, readOnly |-> readOnly]

Commit(d) ==
  /\ files' = d.files
  /\ manifest' = d.manifest
  /\ dirs' = d.dirs
  /\ readOnly' = d.readOnly

NoKey == <<>>

\* The processes that share the cache directory.
Procs == {1, 2}

\* The local variables of an operation: its namespace and key, the entry it
\* holds, its in-memory manifest, the rows its loop has still to visit.
NoLocals ==
  [ns |-> "", key |-> NoKey, entry |-> None, manifest |-> None, todo |-> <<>>]

\* One more operation is called, while the bound allows it, and runs to its
\* end with no other process in between.
Called ==
  /\ nops < MaxOps
  /\ nops' = nops + 1
  /\ UNCHANGED <<pc, locals>>

\* The operation ends: error is None when it returns (its promise resolves),
\* Some(e) when it throws e (its promise rejects with e).
ObserveOutcome(op, ns, key, result, error, calls, cleanup) ==
  last' = [op |-> op, ns |-> ns, key |-> key, result |-> result,
           error |-> error, calls |-> calls, cleanup |-> cleanup]

\* The operation returns.
Observe(op, ns, key, result, calls, cleanup) ==
  ObserveOutcome(op, ns, key, result, None, calls, cleanup)

\* What set throws, given its outcome.
SetError(outcome) ==
  IF outcome \in {"ENOENT", "EACCES"} THEN Some(outcome) ELSE None

\* What a function of cleanup.ts or cli.ts throws, given its result.
ParseError(result) ==
  IF result = SyntaxError THEN Some("SyntaxError") ELSE None

\* What clear throws.
ClearError(r) == IF r.threw THEN Some("EACCES") ELSE None

\* The patterns the model passes to invalidatePattern: the strings "/" and
\* "." and the RegExp object /./g.
Patterns ==
  {StringPattern("/"), StringPattern("."), RegExpPattern(RegExp(".", TRUE))}

Init ==
  /\ files = [loc \in Locs |-> NoFile]
  /\ manifest = NoFile
  /\ dirs = Namespaces
  /\ readOnly = FALSE
  /\ disabled = [ns \in Namespaces |-> FALSE]
  /\ now = 0
  /\ nops = 0
  /\ last = [op |-> "init", ns |-> "", key |-> NoKey, result |-> "",
             error |-> None, calls |-> <<>>, cleanup |-> None]
  /\ pc = [p \in Procs |-> "idle"]
  /\ locals = [p \in Procs |-> NoLocals]

Tick ==
  /\ now < MaxTime
  /\ now' = now + 1
  /\ UNCHANGED <<files, manifest, dirs, readOnly, disabled, nops, last, pc, locals>>

SetOp(ns, key, data, ttlOpt) ==
  LET r == Set(Disk, ns, disabled[ns], key, data, ttlOpt, now)
  IN /\ Called
     /\ Commit(r.disk)
     /\ ObserveOutcome("set", ns, key, r.outcome, SetError(r.outcome), <<>>,
                       r.cleanup)
     /\ UNCHANGED <<disabled, now>>

GetOp(ns, key, ttlOpt, swrOpt) ==
  LET r == Get(Disk, ns, disabled[ns], key, ttlOpt, swrOpt, now)
  IN /\ Called
     /\ Commit(r.disk)
     /\ Observe("get", ns, key, r.result, <<>>, None)
     /\ UNCHANGED <<disabled, now>>

GetOrFetchOp(ns, key, fetched, ttlOpt, swrOpt, bypassCache) ==
  LET r == GetOrFetch(Disk, ns, disabled[ns], key, fetched, ttlOpt, swrOpt,
                      bypassCache, now)
  IN /\ Called
     /\ Commit(r.disk)
     /\ ObserveOutcome("getOrFetch", ns, key, r.result, r.result.error,
                       r.calls, r.cleanup)
     /\ UNCHANGED <<disabled, now>>

InvalidateOp(ns, key) ==
  LET r == Invalidate(Disk, ns, disabled[ns], key)
  IN /\ Called
     /\ Commit(r.disk)
     /\ Observe("invalidate", ns, key, r.result, <<>>, None)
     /\ UNCHANGED <<disabled, now>>

InvalidatePatternOp(ns, pattern) ==
  LET r == InvalidatePattern(Disk, ns, disabled[ns], pattern)
  IN /\ Called
     /\ Commit(r.disk)
     /\ Observe("invalidatePattern", ns, NoKey, r.result, <<>>, None)
     /\ UNCHANGED <<disabled, now>>

ClearOp(ns) ==
  LET r == Clear(Disk, ns, disabled[ns])
  IN /\ Called
     /\ Commit(r.disk)
     /\ ObserveOutcome("clear", ns, NoKey, r.result, ClearError(r), <<>>, None)
     /\ UNCHANGED <<disabled, now>>

PerformCleanupOp ==
  LET r == PerformCleanupNoArg(Disk, now)
  IN /\ Called
     /\ Commit(r.disk)
     /\ ObserveOutcome("performCleanup", "", NoKey, r.result, ParseError(r.result),
                       <<>>, r.arg)
     /\ UNCHANGED <<disabled, now>>

PurgeExpiredOp(swr) ==
  LET r == PurgeExpired(Disk, swr, now)
  IN /\ Called
     /\ Commit(r.disk)
     /\ ObserveOutcome("purgeExpired", "", NoKey, r.result, ParseError(r.result),
                       <<>>, None)
     /\ UNCHANGED <<disabled, now>>

ClearNamespaceOp(ns) ==
  LET r == ClearNamespace(Disk, ns)
  IN /\ Called
     /\ Commit(r.disk)
     /\ ObserveOutcome("clearNamespace", ns, NoKey, r.result, ParseError(r.result),
                       <<>>, None)
     /\ UNCHANGED <<disabled, now>>

ClearAllOp ==
  LET r == ClearAll(Disk, now)
  IN /\ Called
     /\ Commit(r.disk)
     /\ ObserveOutcome("clearAll", "", NoKey, r.result, ParseError(r.result),
                       <<>>, None)
     /\ UNCHANGED <<disabled, now>>

\* disable()
DisableOp(ns) ==
  /\ Called
  /\ disabled' = [disabled EXCEPT ![ns] = TRUE]
  /\ Observe("disable", ns, NoKey, "", <<>>, None)
  /\ UNCHANGED <<files, manifest, dirs, readOnly, now>>

\* enable()
EnableOp(ns) ==
  /\ Called
  /\ disabled' = [disabled EXCEPT ![ns] = FALSE]
  /\ Commit(EnsureDirectories(Disk, ns))
  /\ Observe("enable", ns, NoKey, "", <<>>, None)
  /\ UNCHANGED now

\* The operations of the cache and of its maintenance surface, the instances
\* staying enabled.
Next ==
  \/ Tick
  \/ \E ns \in Namespaces, key \in Keys, data \in Values, ttlOpt \in TTLOptions :
       SetOp(ns, key, data, ttlOpt)
  \/ \E ns \in Namespaces, key \in Keys, ttlOpt \in GetTTLOptions,
        swrOpt \in SWROptions :
       GetOp(ns, key, ttlOpt, swrOpt)
  \/ \E ns \in Namespaces, key \in Keys, fetched \in FetchOutcomes,
        bypassCache \in BOOLEAN :
       GetOrFetchOp(ns, key, fetched, None, None, bypassCache)
  \/ \E ns \in Namespaces, key \in Keys : InvalidateOp(ns, key)
  \/ \E ns \in Namespaces, pattern \in Patterns : InvalidatePatternOp(ns, pattern)
  \/ \E ns \in Namespaces : ClearOp(ns)
  \/ PerformCleanupOp
  \/ \E swr \in {0, 1} : PurgeExpiredOp(swr)
  \/ \E ns \in Namespaces : ClearNamespaceOp(ns)
  \/ ClearAllOp

Spec == Init /\ [][Next]_vars

----------------------------------------------------------------------------
(***************************************************************************)
(* Two processes share the cache directory and run set, invalidate, clear  *)
(* and performCleanup with no lock: every file system call of an operation *)
(* is a step of its own, and the steps of the two processes interleave.    *)
(***************************************************************************)
\* A process calls one more operation, while the bound allows it.
Begins(p) ==
  /\ pc[p] = "idle"
  /\ nops < MaxCalls
  /\ nops' = nops + 1

\* Process p moves to the step at, with the local variables l.
Goto(p, at, l) ==
  /\ pc' = [pc EXCEPT ![p] = at]
  /\ locals' = [locals EXCEPT ![p] = l]

\* Process p returns from its operation.
Return(p) == Goto(p, "idle", NoLocals)

\* set, up to const manifest = this.getManifest()
SetLoad(p, ns, key, data, ttlOpt) ==
  LET serialized == JSONStringify(data)
      size == ByteLength(serialized)
      ttl == OrElse(ttlOpt, Config(ns).defaultTTL)
  IN /\ Begins(p)
     /\ IF disabled[ns] \/ size > Config(ns).maxEntrySize
        THEN Return(p)
        ELSE Goto(p, "SetSave",
                  [NoLocals EXCEPT
                     !.ns = ns, !.key = key,
                     !.entry = Some(NewEntry(serialized, size, ttl, now)),
                     !.manifest = Some(GetManifest(Disk))])
     /\ UNCHANGED <<files, manifest, dirs, readOnly, disabled, now, last>>

\* set: the row and totalSize are put in the manifest, this.saveManifest(manifest)
SetSave(p) ==
  LET l == locals[p]
  IN /\ pc[p] = "SetSave"
     /\ Commit(SaveManifest(Disk,
                 WithRow(l.manifest[1], NewRow(l.ns, l.key, l.entry[1]))))
     /\ Goto(p, "SetWrite", l)
     /\ UNCHANGED <<disabled, now, nops, last>>

\* set: fs.writeFileSync(filePath, ...), which throws when the directory is gone
SetWrite(p) ==
  LET l == locals[p]
  IN /\ pc[p] = "SetWrite"
     /\ IF l.ns \notin dirs
        THEN UNCHANGED <<files, manifest, dirs, readOnly>> /\ Return(p)
        ELSE /\ Commit(WriteFile(Disk, GetFilePath(l.ns, l.key), l.entry[1]))
             /\ Goto(p, "CleanupIfNeeded", NoLocals)
     /\ UNCHANGED <<disabled, now, nops, last>>

\* The local variables of performCleanup over the manifest it was handed.
CleanupLocals(m) ==
  [NoLocals EXCEPT !.manifest = Some(m), !.todo = SortByAccess(m.entries)]

\* cleanupIfNeeded: the manifest is read and compared with the threshold
CleanupIfNeededRead(p) ==
  /\ pc[p] = "CleanupIfNeeded"
  /\ IF \/ manifest = NoFile
        \/ ~Parses(manifest[1])   \* JSON.parse throws, set rejects
        \/ BelowThreshold(manifest[1].totalSize, MaxSizeOf(manifest[1]))
     THEN Return(p)
     ELSE Goto(p, "Evict", CleanupLocals(manifest[1]))
  /\ UNCHANGED <<files, manifest, dirs, readOnly, disabled, now, nops, last>>

\* performCleanup(cacheDir): the manifest is read
PerformCleanupRead(p) ==
  /\ Begins(p)
  /\ IF manifest = NoFile \/ ~Parses(manifest[1])   \* or JSON.parse throws
     THEN Return(p)
     ELSE Goto(p, "Evict", CleanupLocals(manifest[1]))
  /\ UNCHANGED <<files, manifest, dirs, readOnly, disabled, now, last>>

\* The loop of performCleanup goes on: candidates are left and currentSize,
\* kept in the in-memory manifest, is above the target.
Evicting(l) ==
  /\ l.todo # <<>>
  /\ ~AtOrBelowTarget(l.manifest[1].totalSize, MaxSizeOf(l.manifest[1]))

\* performCleanup: one turn of the loop, fs.unlinkSync of the oldest candidate
Evict(p) ==
  LET l == locals[p]
      entry == Head(l.todo)
  IN /\ pc[p] = "Evict"
     /\ Evicting(l)
     /\ Commit(Unlink(Disk, entry.filePath))
     /\ Goto(p, "Evict",
             [l EXCEPT
                !.todo = Tail(@),
                !.manifest = Some([l.manifest[1] EXCEPT
                                     !.entries = DeleteRow(@, entry.filePath),
                                     !.totalSize = @ - entry.size])])
     /\ UNCHANGED <<disabled, now, nops, last>>

\* performCleanup: the loop is over, fs.writeFileSync(manifestPath, ...)
\* opens manifest.json with O_TRUNC
EvictTruncate(p) ==
  LET l == locals[p]
  IN /\ pc[p] = "Evict"
     /\ ~Evicting(l)
     /\ Commit(OpenTruncate(Disk))
     /\ Goto(p, "EvictSave", l)
     /\ UNCHANGED <<disabled, now, nops, last>>

\* performCleanup: fs.writeFileSync(manifestPath, ...) writes the bytes
EvictSave(p) ==
  LET l == locals[p]
  IN /\ pc[p] = "EvictSave"
     /\ Commit(WriteManifest(Disk,
                 [l.manifest[1] EXCEPT !.lastCleanup = Some(ToISOString(now))]))
     /\ Return(p)
     /\ UNCHANGED <<disabled, now, nops, last>>

\* invalidate, up to JSON.parse(content)
InvalidateRead(p, ns, key) ==
  LET filePath == GetFilePath(ns, key)
  IN /\ Begins(p)
     /\ IF disabled[ns] \/ ~Exists(Disk, filePath)
        THEN Return(p)
        ELSE Goto(p, "InvalidateUnlink",
                  [NoLocals EXCEPT !.ns = ns, !.key = key,
                                   !.entry = Some(ReadFile(Disk, filePath))])
     /\ UNCHANGED <<files, manifest, dirs, readOnly, disabled, now, last>>

\* invalidate: fs.unlinkSync(filePath), which throws when the file is gone
InvalidateUnlink(p) ==
  LET l == locals[p]
      filePath == GetFilePath(l.ns, l.key)
  IN /\ pc[p] = "InvalidateUnlink"
     /\ IF ~Exists(Disk, filePath)
        THEN UNCHANGED <<files, manifest, dirs, readOnly>> /\ Return(p)
        ELSE Commit(Unlink(Disk, filePath)) /\ Goto(p, "InvalidateLoad", l)
     /\ UNCHANGED <<disabled, now, nops, last>>

\* invalidate: const manifest = this.getManifest()
InvalidateLoad(p) ==
  LET l == locals[p]
      m == GetManifest(Disk)
  IN /\ pc[p] = "InvalidateLoad"
     /\ IF HasRow(m, GetFilePath(l.ns, l.key))
        THEN Goto(p, "InvalidateSave", [l EXCEPT !.manifest = Some(m)])
        ELSE Return(p)
     /\ UNCHANGED <<files, manifest, dirs, readOnly, disabled, now, nops, last>>

\* invalidate: totalSize -= entry.size, the row is deleted, saveManifest
InvalidateSave(p) ==
  LET l == locals[p]
  IN /\ pc[p] = "InvalidateSave"
     /\ Commit(SaveManifest(Disk,
                 [l.manifest[1] EXCEPT
                    !.totalSize = @ - l.entry[1].size,
                    !.entries = DeleteRow(@, GetFilePath(l.ns, l.key))]))
     /\ Return(p)
     /\ UNCHANGED <<disabled, now, nops, last>>

\* clear, up to const manifest = this.getManifest()
ClearLoad(p, ns) ==
  LET m == GetManifest(Disk)
  IN /\ Begins(p)
     /\ IF disabled[ns]
        THEN Return(p)
        ELSE Goto(p, "ClearUnlink",
                  [NoLocals EXCEPT
                     !.ns = ns, !.manifest = Some(m),
                     !.todo = SelectSeq(m.entries,
                                        LAMBDA entry : InNamespace(entry, ns))])
     /\ UNCHANGED <<files, manifest, dirs, readOnly, disabled, now, last>>

\* clear: one turn of the loop over the rows of the namespace.  freedSize is
\* kept as the difference between totalSize and the sizes of the rows left.
ClearUnlink(p) ==
  LET l == locals[p]
      entry == Head(l.todo)
  IN /\ pc[p] = "ClearUnlink"
     /\ l.todo # <<>>
     /\ Commit(Unlink(Disk, entry.filePath))
     /\ Goto(p, "ClearUnlink",
             [l EXCEPT
                !.todo = Tail(@),
                !.manifest = Some([l.manifest[1] EXCEPT
                                     !.entries = DeleteRow(@, entry.filePath),
                                     !.totalSize = @ - entry.size])])
     /\ UNCHANGED <<disabled, now, nops, last>>

\* clear: manifest.totalSize -= freedSize, this.saveManifest(manifest)
ClearSave(p) ==
  LET l == locals[p]
  IN /\ pc[p] = "ClearUnlink"
     /\ l.todo = <<>>
     /\ Commit(SaveManifest(Disk, l.manifest[1]))
     /\ Return(p)
     /\ UNCHANGED <<disabled, now, nops, last>>

\* The steps of the two processes, in any order.
NextConc ==
  \E p \in Procs :
    \/ \E ns \in Namespaces, key \in Keys, data \in Values :
         SetLoad(p, ns, key, data, None)
    \/ SetSave(p)
    \/ SetWrite(p)
    \/ CleanupIfNeededRead(p)
    \/ PerformCleanupRead(p)
    \/ Evict(p)
    \/ EvictTruncate(p)
    \/ EvictSave(p)
    \/ \E ns \in Namespaces, key \in Keys : InvalidateRead(p, ns, key)
    \/ InvalidateUnlink(p)
    \/ InvalidateLoad(p)
    \/ InvalidateSave(p)
    \/ \E ns \in Namespaces : ClearLoad(p, ns)
    \/ ClearUnlink(p)
    \/ ClearSave(p)

SpecConc == Init /\ [][NextConc]_vars

----------------------------------------------------------------------------
(***************************************************************************)
(* The PluginCache instances live on while the maintenance functions purge *)
(* their namespaces and while they are disabled and enabled again.  The    *)
(* operations run one at a time, on one key and one value.                 *)
(***************************************************************************)
\* An operation is called and runs to its end: d is the disk it leaves.
Ended(d, op, ns, key, result, error, calls, cleanup) ==
  /\ nops < MaxInstanceOps
  /\ nops' = nops + 1
  /\ Commit(d)
  /\ ObserveOutcome(op, ns, key, result, error, calls, cleanup)
  /\ UNCHANGED <<now, pc, locals>>

\* An operation that cannot throw is called and returns.
Ran(d, op, ns, key, result, calls, cleanup) ==
  Ended(d, op, ns, key, result, None, calls, cleanup)

InstanceSet(ns, key, data) ==
  LET r == Set(Disk, ns, disabled[ns], key, data, None, now)
  IN Ended(r.disk, "set", ns, key, r.outcome, SetError(r.outcome), <<>>,
           r.cleanup)
     /\ UNCHANGED disabled

InstanceGet(ns, key) ==
  LET r == Get(Disk, ns, disabled[ns], key, None, None, now)
  IN Ran(r.disk, "get", ns, key, r.result, <<>>, None)
     /\ UNCHANGED disabled

InstanceGetOrFetch(ns, key, fetched) ==
  LET r == GetOrFetch(Disk, ns, disabled[ns], key, fetched, None, None,
                      FALSE, now)
  IN Ended(r.disk, "getOrFetch", ns, key, r.result, r.result.error, r.calls,
           r.cleanup)
     /\ UNCHANGED disabled

InstanceInvalidate(ns, key) ==
  LET r == Invalidate(Disk, ns, disabled[ns], key)
  IN Ran(r.disk, "invalidate", ns, key, r.result, <<>>, None)
     /\ UNCHANGED disabled

InstanceInvalidatePattern(ns, pattern) ==
  LET r == InvalidatePattern(Disk, ns, disabled[ns], pattern)
  IN Ran(r.disk, "invalidatePattern", ns, NoKey, r.result, <<>>, None)
     /\ UNCHANGED disabled

InstanceClear(ns) ==
  LET r == Clear(Disk, ns, disabled[ns])
  IN Ended(r.disk, "clear", ns, NoKey, r.result, ClearError(r), <<>>, None)
     /\ UNCHANGED disabled

InstanceClearNamespace(ns) ==
  LET r == ClearNamespace(Disk, ns)
  IN Ended(r.disk, "clearNamespace", ns, NoKey, r.result, ParseError(r.result),
           <<>>, None)
     /\ UNCHANGED disabled

InstanceClearAll ==
  LET r == ClearAll(Disk, now)
  IN Ended(r.disk, "clearAll", "", NoKey, r.result, ParseError(r.result), <<>>,
           None)
     /\ UNCHANGED disabled

\* disable()
InstanceDisable(ns) ==
  /\ Ran(Disk, "disable", ns, NoKey, "", <<>>, None)
  /\ disabled' = [disabled EXCEPT ![ns] = TRUE]

\* enable()
InstanceEnable(ns) ==
  /\ Ran(EnsureDirectories(Disk, ns), "enable", ns, NoKey, "", <<>>, None)
  /\ disabled' = [disabled EXCEPT ![ns] = FALSE]

\* The value the instances cache.
InstanceValue == 7

NextInstance ==
  \/ \E ns \in Namespaces : InstanceSet(ns, KeyK, InstanceValue)
  \/ \E ns \in Namespaces : InstanceGet(ns, KeyK)
  \/ \E ns \in Namespaces, fetched \in {Resolved(InstanceValue), Rejected("FetchError")} :
       InstanceGetOrFetch(ns, KeyK, fetched)
  \/ \E ns \in Namespaces : InstanceInvalidate(ns, KeyK)
  \/ \E ns \in Namespaces : InstanceInvalidatePattern(ns, StringPattern("."))
  \/ \E ns \in Namespaces : InstanceClear(ns)
  \/ \E ns \in Namespaces : InstanceClearNamespace(ns)
  \/ InstanceClearAll
  \/ \E ns \in Namespaces : InstanceDisable(ns)
  \/ \E ns \in Namespaces : InstanceEnable(ns)

SpecInstance == Init /\ [][NextInstance]_vars

----------------------------------------------------------------------------
(***************************************************************************)
(* The cache under faults of its directory: manifest.json is left          *)
(* truncated by a writer that was killed inside fs.writeFileSync, and      *)
(* cacheDir is write-protected so that saveManifest cannot create its      *)
(* temporary file.                                                         *)
(***************************************************************************)
\* A process is killed between the open and the write of manifest.json.
CorruptManifest ==
  /\ manifest # Some(Truncated)
  /\ Ran(OpenTruncate(Disk), "corrupt", "", NoKey, "", <<>>, None)
  /\ UNCHANGED disabled

\* cacheDir loses its write permission.
ProtectCacheDir ==
  /\ ~readOnly
  /\ Ran([Disk EXCEPT !.readOnly = TRUE], "protect", "", NoKey, "", <<>>, None)
  /\ UNCHANGED disabled

FaultGetStats(ns) ==
  /\ Ran(Disk, "getStats", ns, NoKey, GetStats(Disk, ns, disabled[ns], now),
         <<>>, None)
  /\ UNCHANGED disabled

FaultKeys(ns) ==
  /\ Ran(Disk, "keys", ns, NoKey, keys(Disk, ns, disabled[ns]), <<>>, None)
  /\ UNCHANGED disabled

FaultGetGlobalStats ==
  /\ Ended(Disk, "getGlobalStats", "", NoKey, GetGlobalStats(Disk, now),
           ParseError(GetGlobalStats(Disk, now)), <<>>, None)
  /\ UNCHANGED disabled

FaultCleanupIfNeeded ==
  LET r == CleanupIfNeeded(Disk, now)
  IN Ended(r.disk, "cleanupIfNeeded", "", NoKey, r.result, ParseError(r.result),
           <<>>, r.arg)
     /\ UNCHANGED disabled

FaultPerformCleanup ==
  LET r == PerformCleanupNoArg(Disk, now)
  IN Ended(r.disk, "performCleanup", "", NoKey, r.result, ParseError(r.result),
           <<>>, r.arg)
     /\ UNCHANGED disabled

FaultPurgeExpired ==
  LET r == PurgeExpired(Disk, DEFAULT_SWR, now)
  IN Ended(r.disk, "purgeExpired", "", NoKey, r.result, ParseError(r.result),
           <<>>, None)
     /\ UNCHANGED disabled

NextFault ==
  \/ CorruptManifest
  \/ ProtectCacheDir
  \/ \E ns \in Namespaces : InstanceSet(ns, KeyK, InstanceValue)
  \/ \E ns \in Namespaces : InstanceGet(ns, KeyK)
  \/ \E ns \in Namespaces : InstanceInvalidate(ns, KeyK)
  \/ \E ns \in Namespaces : InstanceClear(ns)
  \/ \E ns \in Namespaces : FaultGetStats(ns)
  \/ \E ns \in Namespaces : FaultKeys(ns)
  \/ FaultGetGlobalStats
  \/ FaultCleanupIfNeeded
  \/ FaultPerformCleanup
  \/ FaultPurgeExpired
  \/ \E ns \in Namespaces : InstanceClearNamespace(ns)
  \/ InstanceClearAll

SpecFault == Init /\ [][NextFault]_vars

----------------------------------------------------------------------------
(***************************************************************************)
(* getOrFetch in two processes on one cache directory.  A call is          *)
(* suspended while its producer runs; the manifest save and the file write *)
(* of its set are two file-system calls that the other process can come    *)
(* between.                                                                *)
(***************************************************************************)
\* getOrFetch: const cached = this.get(key), served when it is a fresh hit
FlightGet(p, ns, key) ==
  LET cached == Get(Disk, ns, disabled[ns], key, None, None, now)
  IN /\ Begins(p)
     /\ Commit(cached.disk)
     /\ IF ServeFromCache(cached.result)
        THEN /\ Return(p)
             /\ ObserveOutcome("getOrFetch", ns, key,
                               Resolved(cached.result.data[1]), None,
                               <<"get">>, None)
        ELSE /\ Goto(p, "FlightFetch", [NoLocals EXCEPT !.ns = ns, !.key = key])
             /\ UNCHANGED last
     /\ UNCHANGED <<disabled, now>>

\* getOrFetch: await fetcher() ends; set builds the entry and loads the
\* manifest
FlightFetch(p, fetched) ==
  LET l == locals[p]
      data == fetched.value[1]
      serialized == JSONStringify(data)
      size == ByteLength(serialized)
      ttl == Config(l.ns).defaultTTL
  IN /\ pc[p] = "FlightFetch"
     /\ IF fetched.status = "rejected"
        THEN /\ Return(p)
             /\ ObserveOutcome("getOrFetch", l.ns, l.key, fetched, fetched.error,
                               <<"get", "fetcher">>, None)
        ELSE IF disabled[l.ns] \/ ExceedsMaxSize(size, Config(l.ns).maxEntrySize)
        THEN /\ Return(p)
             /\ ObserveOutcome("getOrFetch", l.ns, l.key, Resolved(data), None,
                               <<"get", "fetcher", "set">>, None)
        ELSE /\ Goto(p, "FlightSave",
                     [l EXCEPT !.entry = Some(NewEntry(serialized, size, ttl, now)),
                               !.manifest = Some(GetManifest(Disk))])
             /\ UNCHANGED last
     /\ UNCHANGED <<files, manifest, dirs, readOnly, disabled, now, nops>>

\* set: the row and totalSize are put in the manifest, this.saveManifest(manifest)
FlightSave(p) ==
  LET l == locals[p]
  IN /\ pc[p] = "FlightSave"
     /\ Commit(SaveManifest(Disk,
                 WithRow(l.manifest[1], NewRow(l.ns, l.key, l.entry[1]))))
     /\ Goto(p, "FlightWrite", l)
     /\ UNCHANGED <<disabled, now, nops, last>>

\* set: fs.writeFileSync(filePath, ...)
FlightWrite(p) ==
  LET l == locals[p]
  IN /\ pc[p] = "FlightWrite"
     /\ IF l.ns \notin dirs
        THEN /\ UNCHANGED <<files, manifest, dirs, readOnly>>
             /\ Return(p)
             /\ ObserveOutcome("getOrFetch", l.ns, l.key, Rejected("ENOENT"),
                               Some("ENOENT"), <<"get", "fetcher", "set">>, None)
        ELSE /\ Commit(WriteFile(Disk, GetFilePath(l.ns, l.key), l.entry[1]))
             /\ Goto(p, "FlightReturn", l)
             /\ UNCHANGED last
     /\ UNCHANGED <<disabled, now, nops>>

\* set: await cleanupIfNeeded(this.cacheDir); getOrFetch: return data
FlightReturn(p) ==
  LET l == locals[p]
      c == CleanupIfNeeded(Disk, now)
  IN /\ pc[p] = "FlightReturn"
     /\ Commit(c.disk)
     /\ Return(p)
     /\ IF ParseError(c.result) # None
        THEN ObserveOutcome("getOrFetch", l.ns, l.key, Rejected("SyntaxError"),
                            ParseError(c.result), <<"get", "fetcher", "set">>,
                            c.arg)
        ELSE ObserveOutcome("getOrFetch", l.ns, l.key,
                            Resolved(JSONParse(l.entry[1].data)), None,
                            <<"get", "fetcher", "set">>, c.arg)
     /\ UNCHANGED <<disabled, now, nops>>

NextFlight ==
  \E p \in Procs :
    \/ \E ns \in Namespaces, key \in Keys : FlightGet(p, ns, key)
    \/ \E fetched \in FetchOutcomes : FlightFetch(p, fetched)
    \/ FlightSave(p)
    \/ FlightWrite(p)
    \/ FlightReturn(p)

SpecFlight == Init /\ [][NextFlight]_vars

----------------------------------------------------------------------------
(***************************************************************************)
(* The instances go on storing values of every size under both keys while  *)
(* clearNamespace and clearAll remove their directories and enable()       *)
(* creates them again.                                                     *)
(***************************************************************************)
NextStale ==
  \/ \E ns \in Namespaces, key \in Keys, data \in Values :
       InstanceSet(ns, key, data)
  \/ \E ns \in Namespaces : InstanceClearNamespace(ns)
  \/ InstanceClearAll
  \/ \E ns \in Namespaces : InstanceEnable(ns)

SpecStale == Init /\ [][NextStale]_vars

----------------------------------------------------------------------------
\* Properties.

\* The manifest on disk, the empty manifest standing for a missing file, as
\* getManifest reads it.
Stored == GetManifest(Disk)

\* The rows of a manifest, as a set.
Rows(m) == {m.entries[i] : i \in 1..Len(m.entries)}

RECURSIVE SumSizes(_)
\* The sum of size over the rows of a sequence.
SumSizes(entries) ==
  IF entries = <<>> THEN 0 ELSE Head(entries).size + SumSizes(Tail(entries))

RECURSIVE SumOver(_)
\* The sum of the sizes of a set of rows.
SumOver(rows) ==
  IF rows = {} THEN 0
  ELSE LET r == CHOOSE x \in rows : TRUE
       IN r.size + SumOver(rows \ {r})

\* C1: after every completed operation that changes the cache (set,
\* invalidate, invalidatePattern, clear, performCleanup, purgeExpired,
\* clearNamespace, clearAll), run one at a time, the totalSize of the manifest
\* equals the sum of the sizes of its entries.
C1_TotalSizeIsSum ==
  manifest # NoFile =>
    manifest[1].totalSize = SumSizes(manifest[1].entries)

\* C1 happens: an invalidate removed an entry and left others in the manifest.
C1_Witness ==
  /\ last.op = "invalidate"
  /\ last.result = TRUE
  /\ manifest # NoFile
  /\ Len(manifest[1].entries) >= 1
  /\ manifest[1].totalSize > 0

\* C2: under any interleaving of the manifest-load, manifest-save, file-write
\* and file-delete steps of set, invalidate, clear and cleanup run by two
\* processes, every manifest saved to disk has totalSize equal to the sum of
\* the sizes of its entries.
C2_SavedManifestIsConsistent ==
  [][(manifest' # manifest /\ manifest' # NoFile /\ Parses(manifest'[1])) =>
       manifest'[1].totalSize = SumSizes(manifest'[1].entries)]_vars

\* The manifest the last operation handed to performCleanup.
CleanupArg == last.cleanup[1]

\* C3: after performCleanup has run on a manifest whose totalSize was above
\* 0.90 x maxSize, the totalSize is at most 0.70 x maxSize or every entry has
\* been removed.
C3_CleanupReachesTarget ==
  (/\ last.cleanup # None
   /\ CleanupArg.totalSize * 10 > MaxSizeOf(CleanupArg) * 9)
  => \/ Stored.totalSize * 10 <= MaxSizeOf(CleanupArg) * 7
     \/ Stored.entries = <<>>

\* C3 happens: a cleanup over the threshold removed two entries or more and
\* kept one.
C3_Witness ==
  /\ last.cleanup # None
  /\ CleanupArg.totalSize * 10 > MaxSizeOf(CleanupArg) * 9
  /\ Stored.entries # <<>>
  /\ Len(CleanupArg.entries) - Len(Stored.entries) >= 2
  /\ Stored.totalSize * 10 <= MaxSizeOf(CleanupArg) * 7

\* The rows performCleanup removed and the rows it kept.
Removed == {r \in Rows(CleanupArg) : ~HasRow(Stored, r.filePath)}
Kept == Rows(CleanupArg) \ Removed

DistinctAccessTimes(m) ==
  \A i, j \in 1..Len(m.entries) :
    i # j => m.entries[i].lastAccessedAt # m.entries[j].lastAccessedAt

\* C4: when the lastAccessedAt values of the entries are pairwise distinct,
\* the entries performCleanup removes are the shortest oldest-first prefix,
\* over all namespaces, whose removal brings totalSize to 0.70 x maxSize or
\* below: every removed entry is older than every entry kept, nothing is
\* removed once the target is reached, and entries remain only if it is.
C4_OldestFirstPrefix ==
  (last.cleanup # None /\ DistinctAccessTimes(CleanupArg)) =>
    /\ \A r \in Removed, k \in Kept :
         DateOf(r.lastAccessedAt) < DateOf(k.lastAccessedAt)
    /\ \A r \in Removed :
         (\A o \in Removed :
            DateOf(o.lastAccessedAt) <= DateOf(r.lastAccessedAt))
         => (CleanupArg.totalSize - SumOver(Removed \ {r})) * 10
              > MaxSizeOf(CleanupArg) * 7
    /\ Kept # {} =>
         (CleanupArg.totalSize - SumOver(Removed)) * 10
           <= MaxSizeOf(CleanupArg) * 7
    /\ Rows(Stored) = Kept
    /\ \A r \in Removed : files[r.filePath] = NoFile

\* C4 happens: a cleanup over entries of two namespaces with distinct access
\* times removed an entry of each and kept a newer one.
C4_Witness ==
  /\ last.cleanup # None
  /\ DistinctAccessTimes(CleanupArg)
  /\ Kept # {}
  /\ \E r1, r2 \in Removed : r1.namespace # r2.namespace

\* The step is a call of the operation.
Did(op) == nops' = nops + 1 /\ last'.op = op

\* The step is a call of the operation on the key of the namespace.
DidOn(op, ns, key) == Did(op) /\ last'.ns = ns /\ last'.key = key

\* The disk after the step.
DiskAfter ==
  [files |-> files', manifest |-> manifest', dirs |-> dirs',
   readOnly |-> readOnly']

\* C5: on an enabled cache, for every key and every value whose serialized
\* size is within the per-entry cap, a set that returns normally followed
\* immediately by get of the same key returns the value with hit = true and
\* stale = false.
C5_RoundTrip ==
  [][\A ns \in Namespaces, key \in Keys, data \in Values,
        ttlOpt \in TTLOptions :
       (DidOn("set", ns, key) /\ SetOp(ns, key, data, ttlOpt) /\ last'.result = "ok") =>
         LET g == Get(DiskAfter, ns, disabled[ns], key, None, None, now).result
         IN g.hit /\ ~g.stale /\ g.data = Some(data)]_vars

\* The entry file of the last operation's key.
LastFile == files[GetFilePath(last.ns, last.key)]

\* C6: an entry written by set with ttl T at time t0 carries createdAt = t0
\* and expiresAt = t0 + T, and get with stale-while-revalidate window S at
\* time now returns a fresh hit if now < t0 + T, a stale hit that needs
\* revalidation if t0 + T < now < t0 + T + S, and a miss that needs
\* revalidation if now > t0 + T + S, after which neither the entry file nor
\* its manifest row exists.
C6_TTLBoundary ==
  [][/\ \A ns \in Namespaces, key \in Keys, data \in Values,
           ttlOpt \in TTLOptions :
          (/\ DidOn("set", ns, key)
           /\ SetOp(ns, key, data, ttlOpt)
           /\ last'.result = "ok"
           /\ files'[GetFilePath(ns, key)] # NoFile)
          => LET entry == files'[GetFilePath(ns, key)][1]
                 T == OrElse(ttlOpt, Config(ns).defaultTTL)
             IN /\ DateOf(entry.createdAt) = now
                /\ DateOf(entry.expiresAt) = now + T
     /\ \A ns \in Namespaces, key \in Keys, swrOpt \in SWROptions :
          (/\ DidOn("get", ns, key)
           /\ GetOp(ns, key, None, swrOpt)
           /\ files[GetFilePath(ns, key)] # NoFile)
          => LET loc == GetFilePath(ns, key)
                 expiry == DateOf(files[loc][1].expiresAt)
                 S == OrElse(swrOpt, Config(ns).defaultSWR)
                 r == last'.result
             IN /\ now < expiry => r.hit /\ ~r.stale
                /\ (expiry < now /\ now < expiry + S)
                   => r.hit /\ r.stale /\ r.needsRevalidation
                /\ now > expiry + S
                   => /\ ~r.hit
                      /\ r.needsRevalidation
                      /\ files'[loc] = NoFile
                      /\ ~HasRow(GetManifest(DiskAfter), loc)]_vars

\* C6 happens: a get inside the stale-while-revalidate window returned a stale
\* hit.
C6_Witness ==
  /\ last.op = "get"
  /\ last.result.hit
  /\ last.result.stale
  /\ DateOf(LastFile[1].expiresAt) < now

\* The result of get(key) with the defaults, on the disk before the step.
Cached(ns, key) == Get(Disk, ns, disabled[ns], key, None, None, now).result

\* C7: getOrFetch on an enabled cache without bypassCache, for a key whose
\* entry is within its TTL, returns the cached data and does not call the
\* producer.
C7_FreshHitSkipsProducer ==
  [][\A ns \in Namespaces, key \in Keys, fetched \in FetchOutcomes :
       (/\ DidOn("getOrFetch", ns, key)
        /\ GetOrFetchOp(ns, key, fetched, None, None, FALSE)
        /\ ~disabled[ns]
        /\ files[GetFilePath(ns, key)] # NoFile
        /\ now <= DateOf(files[GetFilePath(ns, key)][1].expiresAt))
       => /\ last'.calls = <<"get">>
          /\ last'.result =
               Resolved(JSONParse(files[GetFilePath(ns, key)][1].data))]_vars

\* C7 happens: a getOrFetch ended after its get, with the data of the file.
C7_Witness ==
  /\ last.op = "getOrFetch"
  /\ last.calls = <<"get">>
  /\ LastFile # NoFile
  /\ last.result = Resolved(JSONParse(LastFile[1].data))

\* C8: getOrFetch on an enabled cache, for a key that is absent, fully
\* expired or stale, calls the producer exactly once, calls set with the
\* producer's result, and returns the producer's result.
C8_MissFetchesOnce ==
  [][\A ns \in Namespaces, key \in Keys, data \in Values :
       (/\ DidOn("getOrFetch", ns, key)
        /\ GetOrFetchOp(ns, key, Resolved(data), None, None, FALSE)
        /\ ~disabled[ns]
        /\ ~ServeFromCache(Cached(ns, key)))
       => /\ last'.calls = <<"get", "fetcher", "set">>
          /\ last'.result = Resolved(data)]_vars

\* How many times a call appears in the calls of the last operation.
CallCount(call, calls) == Cardinality({i \in 1..Len(calls) : calls[i] = call})

\* C9 as stated: when the producer passed to getOrFetch fails, the failure
\* reaches the caller unmodified, the producer is called once, and the entry
\* files and the manifest are left as they were, with or without
\* bypassCache.
C9_FailureLeavesAllUntouched ==
  [][\A ns \in Namespaces, key \in Keys, bypassCache \in BOOLEAN :
       (/\ DidOn("getOrFetch", ns, key)
        /\ GetOrFetchOp(ns, key, Rejected("FetchError"), None, None, bypassCache)
        /\ CallCount("fetcher", last'.calls) > 0)
       => /\ last'.result = Rejected("FetchError")
          /\ CallCount("fetcher", last'.calls) = 1
          /\ files' = files
          /\ manifest' = manifest]_vars

\* C9, amended: when the producer passed to getOrFetch fails, the failure
\* reaches the caller unmodified, the producer is called once, set is not
\* called and no entry is created; with bypassCache the entry files and the
\* manifest are left as they were; without it they change only as the get at
\* the start of getOrFetch changes them: a stale entry keeps its data,
\* createdAt, expiresAt and size and has its lastAccessedAt refreshed in the
\* file and the manifest row, and a fully expired entry is removed with its
\* row.
C9_FailureLeavesDataUntouched ==
  [][\A ns \in Namespaces, key \in Keys, bypassCache \in BOOLEAN :
       (/\ DidOn("getOrFetch", ns, key)
        /\ GetOrFetchOp(ns, key, Rejected("FetchError"), None, None, bypassCache)
        /\ CallCount("fetcher", last'.calls) > 0)
       => LET loc == GetFilePath(ns, key)
              before == GetManifest(Disk)
              after == GetManifest(DiskAfter)
          IN /\ last'.result = Rejected("FetchError")
             /\ CallCount("fetcher", last'.calls) = 1
             /\ CallCount("set", last'.calls) = 0
             /\ \A other \in Locs \ {loc} : files'[other] = files[other]
             /\ files[loc] = NoFile => files'[loc] = NoFile
             /\ after.totalSize = SumSizes(after.entries)
             /\ \A i \in 1..Len(after.entries) :
                  /\ HasRow(before, after.entries[i].filePath)
                  /\ after.entries[i].filePath # loc =>
                       after.entries[i] = Row(before, after.entries[i].filePath)
             /\ \A i \in 1..Len(before.entries) :
                  before.entries[i].filePath # loc =>
                    HasRow(after, before.entries[i].filePath)
             /\ bypassCache => files' = files /\ manifest' = manifest
             /\ (~bypassCache /\ files[loc] # NoFile) =>
                  LET old == files[loc][1]
                      expiry == DateOf(old.expiresAt)
                      S == Config(ns).defaultSWR
                  IN IF now > expiry + S
                     THEN files'[loc] = NoFile /\ ~HasRow(after, loc)
                     ELSE /\ files'[loc] =
                               Some([old EXCEPT !.lastAccessedAt = ToISOString(now)])
                          /\ HasRow(before, loc) =>
                               /\ HasRow(after, loc)
                               /\ Row(after, loc) =
                                    [Row(before, loc) EXCEPT
                                       !.lastAccessedAt = ToISOString(now)]]_vars

\* C9 happens: the producer failed on a stale entry, which is still in its
\* file with its manifest row.
C9_Witness ==
  /\ last.op = "getOrFetch"
  /\ last.calls = <<"get", "fetcher">>
  /\ last.result = Rejected("FetchError")
  /\ LastFile # NoFile
  /\ DateOf(LastFile[1].expiresAt) < now
  /\ HasRow(Stored, GetFilePath(last.ns, last.key))

\* C10: clear() on a PluginCache of one namespace leaves every entry of the
\* other namespaces with the same file content and the same manifest row.
C10_ClearKeepsOtherNamespaces ==
  [][\A ns \in Namespaces :
       (Did("clear") /\ ClearOp(ns)) =>
         LET before == GetManifest(Disk)
             after == GetManifest(DiskAfter)
         IN /\ \A loc \in Locs : loc[1] # ns => files'[loc] = files[loc]
            /\ \A row \in Rows(before) :
                 row.namespace # ns => row \in Rows(after)
            /\ \A row \in Rows(after) :
                 row.namespace # ns => row \in Rows(before)]_vars

\* C10 happens: a clear removed the entries of its namespace while another
\* namespace holds an entry with its file and row.
C10_Witness ==
  /\ last.op = "clear"
  /\ last.result >= 1
  /\ \E loc \in Locs :
       /\ loc[1] # last.ns
       /\ files[loc] # NoFile
       /\ HasRow(Stored, loc)

\* The row of the location agrees with the entry file: both are missing, or
\* both exist and the row holds the file's size, lastAccessedAt and expiresAt.
RowAgreesWithFile(loc) ==
  IF files[loc] = NoFile THEN ~HasRow(Stored, loc)
  ELSE /\ HasRow(Stored, loc)
       /\ Row(Stored, loc).size = files[loc][1].size
       /\ Row(Stored, loc).lastAccessedAt = files[loc][1].lastAccessedAt
       /\ Row(Stored, loc).expiresAt = files[loc][1].expiresAt

\* The last operation is a mutation that returned normally.
MutationSucceeded ==
  /\ last.op \in {"set", "invalidate", "invalidatePattern", "clear",
                  "performCleanup", "purgeExpired", "clearNamespace", "clearAll"}
  /\ last.error = None

\* C11: after every successful mutation (set, invalidate, clear, eviction,
\* purge) a manifest row exists for a location if and only if the entry file
\* exists there, and the row's size, lastAccessedAt and expiresAt are those
\* of the file.
C11_RowIffFile ==
  MutationSucceeded => \A loc \in Locs : RowAgreesWithFile(loc)

\* C12: every operation that updates the manifest writes a process-unique
\* temporary file and renames it over manifest.json, so that a concurrent
\* reader never finds manifest.json truncated or half written.
C12_ManifestNeverHalfWritten == manifest = NoFile \/ Parses(manifest[1])

\* The operation the last step ran found manifest.json unparsable.
FoundUnparsable == manifest # NoFile /\ ~Parses(manifest[1])

\* The operations that load the manifest.
LoadsManifest ==
  {"get", "set", "invalidate", "clear", "getStats", "cleanupIfNeeded",
   "performCleanup", "purgeExpired", "clearNamespace", "clearAll",
   "getGlobalStats"}

\* C13: an operation that loads an unparsable manifest (get, set,
\* invalidate, clear, getStats, threshold cleanup, purgeExpired,
\* clearNamespace, clearAll, global stats) does not raise the parse error.
C13_UnparsableManifestNeverRaises ==
  [][(FoundUnparsable /\ nops' = nops + 1 /\ last'.op \in LoadsManifest)
       => last'.error # Some("SyntaxError")]_vars

\* The call of op on the key of namespace ns reaches saveManifest: set does
\* whenever it stores, get and invalidate do when the key has a file and a
\* row.
ReachesSave(op, ns, key) ==
  /\ ~disabled[ns]
  /\ \/ op = "set"
     \/ /\ op \in {"get", "invalidate"}
        /\ files[GetFilePath(ns, key)] # NoFile
        /\ HasRow(Stored, GetFilePath(ns, key))

\* C14: a failure of saveManifest is propagated to the caller on the set and
\* on the invalidate path; it is never swallowed or turned into a normal
\* return (false from invalidate, a miss from get).
C14_SaveFailurePropagates ==
  [][(/\ readOnly
      /\ nops' = nops + 1
      /\ last'.op \in {"set", "get", "invalidate"}
      /\ ReachesSave(last'.op, last'.ns, last'.key))
       => last'.error = Some("EACCES")]_vars

\* The serialized value is larger than the maxEntrySize of the instance.
TooLarge(ns, data) ==
  ByteLength(JSONStringify(data)) > Config(ns).maxEntrySize

\* The entry file and the row of the location are after the step what they
\* were before it.
KeyAsItWas(loc) ==
  /\ files'[loc] = files[loc]
  /\ HasRow(GetManifest(DiskAfter), loc) = HasRow(Stored, loc)
  /\ HasRow(Stored, loc) => Row(GetManifest(DiskAfter), loc) = Row(Stored, loc)

\* C15 as stated: after set(k, v) with size(v) > maxEntrySize returns, there
\* is no entry file and no manifest entry for k, whatever the prior state.
C15_OversizedSetLeavesNoEntry ==
  [][\A ns \in Namespaces, key \in Keys, data \in Values, ttlOpt \in TTLOptions :
       (DidOn("set", ns, key) /\ TooLarge(ns, data) /\ SetOp(ns, key, data, ttlOpt))
         => /\ files'[GetFilePath(ns, key)] = NoFile
            /\ ~HasRow(GetManifest(DiskAfter), GetFilePath(ns, key))]_vars

\* C15: after set(k, v) with size(v) > maxEntrySize returns, the entry file
\* and the manifest entry of k are what they were before the call: none when
\* k had none, the earlier entry when k had one.
C15_OversizedSetLeavesKeyAsItWas ==
  [][\A ns \in Namespaces, key \in Keys, data \in Values, ttlOpt \in TTLOptions :
       (DidOn("set", ns, key) /\ TooLarge(ns, data) /\ SetOp(ns, key, data, ttlOpt))
         => KeyAsItWas(GetFilePath(ns, key))]_vars

\* An oversized set has returned and the key still has the entry it had.
C15_Witness ==
  /\ last.op = "set"
  /\ last.error = None
  /\ last.result = "skipped"
  /\ files[GetFilePath(last.ns, last.key)] # NoFile
  /\ HasRow(Stored, GetFilePath(last.ns, last.key))

\* C16: a set whose serialized value exceeds maxEntrySize is a silent no-op:
\* it raises no error, writes no entry file, leaves the manifest unchanged,
\* triggers no cleanup, and getStats().entryCount is what it was.
C16_OversizedSetIsNoOp ==
  [][\A ns \in Namespaces, key \in Keys, data \in Values, ttlOpt \in TTLOptions :
       (DidOn("set", ns, key) /\ TooLarge(ns, data) /\ SetOp(ns, key, data, ttlOpt))
         => /\ last'.error = None
            /\ files' = files
            /\ manifest' = manifest
            /\ last'.cleanup = None
            /\ GetStats(DiskAfter, ns, disabled'[ns], now').entryCount
                 = GetStats(Disk, ns, disabled[ns], now).entryCount]_vars

\* An oversized set of a new key has returned on a cache that holds entries.
C16_Witness ==
  /\ last.op = "set"
  /\ last.result = "skipped"
  /\ last.cleanup = None
  /\ files[GetFilePath(last.ns, last.key)] = NoFile
  /\ Len(Stored.entries) >= 1
  /\ GetStats(Disk, last.ns, disabled[last.ns], now).entryCount >= 1

\* C17: while an instance is disabled, get is a miss, set writes nothing,
\* getOrFetch calls the producer and returns its result without storing it,
\* and invalidate, invalidatePattern and clear change nothing and return
\* false or 0.
C17_DisabledInstanceIsInert ==
  [][\A ns \in Namespaces :
       (disabled[ns] /\ nops' = nops + 1 /\ last'.ns = ns
        /\ last'.op \in {"get", "set", "getOrFetch", "invalidate",
                         "invalidatePattern", "clear"})
         => /\ files' = files /\ manifest' = manifest /\ dirs' = dirs
            /\ last'.op = "get" => last'.result = Miss
            /\ last'.op = "set" => last'.error = None
            /\ last'.op = "getOrFetch" =>
                 /\ last'.calls = <<"fetcher">>
                 /\ \A fetched \in FetchOutcomes :
                      InstanceGetOrFetch(ns, KeyK, fetched) => last'.result = fetched
            /\ last'.op = "invalidate" => last'.result = FALSE
            /\ last'.op \in {"invalidatePattern", "clear"} => last'.result = 0]_vars

\* A disabled instance whose key is stored on disk has been asked to
\* invalidate it.
C17_Witness ==
  /\ last.op = "invalidate"
  /\ disabled[last.ns]
  /\ last.result = FALSE
  /\ files[GetFilePath(last.ns, last.key)] # NoFile
  /\ HasRow(Stored, GetFilePath(last.ns, last.key))

\* Every location but loc has after the step the file and the row it had.
OthersAsTheyWere(loc) ==
  \A other \in Locs \ {loc} : KeyAsItWas(other)

\* C18: invalidate(key) on an enabled instance returns true exactly when
\* something stored for the key was removed; afterwards the key has neither
\* file nor row, totalSize is smaller by the size of the removed row, and
\* every other entry is unchanged.
C18_InvalidateRemovesTheKey ==
  [][\A ns \in Namespaces, key \in Keys :
       (~disabled[ns] /\ DidOn("invalidate", ns, key))
         => LET loc == GetFilePath(ns, key)
                stored == files[loc] # NoFile \/ HasRow(Stored, loc)
                rowSize == IF HasRow(Stored, loc) THEN Row(Stored, loc).size ELSE 0
            IN /\ last'.result = stored
               /\ files'[loc] = NoFile
               /\ ~HasRow(GetManifest(DiskAfter), loc)
               /\ GetManifest(DiskAfter).totalSize = Stored.totalSize - rowSize
               /\ OthersAsTheyWere(loc)]_vars

\* The key matches the pattern: a fresh RegExp of its source finds a match.
KeyMatches(pattern, key) == MatchesAt(ToRegExp(pattern).source, key) # {}

\* The locations of the rows of namespace ns whose key matches the pattern.
Matching(ns, pattern) ==
  {loc \in Locs : /\ HasRow(Stored, loc)
                  /\ Row(Stored, loc).namespace = ns
                  /\ KeyMatches(pattern, Row(Stored, loc).key)}

\* C19: invalidatePattern(p) removes exactly the entries of its namespace
\* whose key, as the manifest records it, matches p, leaves every other
\* entry unchanged, and returns the number of entries it removed.
C19_PatternRemovesExactlyTheMatches ==
  [][\A ns \in Namespaces, pattern \in Patterns :
       (~disabled[ns] /\ DidOn("invalidatePattern", ns, NoKey)
        /\ InvalidatePatternOp(ns, pattern))
         => /\ \A loc \in Matching(ns, pattern) :
                 files'[loc] = NoFile /\ ~HasRow(GetManifest(DiskAfter), loc)
            /\ \A loc \in Locs \ Matching(ns, pattern) : KeyAsItWas(loc)
            /\ last'.result = Cardinality(Matching(ns, pattern))]_vars

\* The locations of the rows of namespace ns.
RowsOf(ns) ==
  {loc \in Locs : HasRow(Stored, loc) /\ Row(Stored, loc).namespace = ns}

\* C20: after clear() on an enabled instance the manifest has no row of its
\* namespace, none of the files of the removed rows exists, totalSize is
\* smaller by the sum of the sizes of the removed rows, and clear returns the
\* number of rows it removed.
C20_ClearEmptiesTheNamespace ==
  [][\A ns \in Namespaces :
       (~disabled[ns] /\ DidOn("clear", ns, NoKey))
         => /\ \A loc \in Locs :
                 HasRow(GetManifest(DiskAfter), loc)
                   => Row(GetManifest(DiskAfter), loc).namespace # ns
            /\ \A loc \in RowsOf(ns) : files'[loc] = NoFile
            /\ GetManifest(DiskAfter).totalSize
                 = Stored.totalSize - SumOver({Row(Stored, loc) : loc \in RowsOf(ns)})
            /\ last'.error = None
            /\ last'.result = Cardinality(RowsOf(ns))]_vars

\* clear has removed the two entries of its namespace.
C20_Witness ==
  /\ last.op = "clear"
  /\ last.result = 2
  /\ \A loc \in Locs : loc[1] = last.ns => files[loc] = NoFile
  /\ RowsOf(last.ns) = {}

\* C21: on every get that is a hit, fresh or stale, lastAccessedAt becomes
\* the time of the get in the entry file and in the entry's manifest row and
\* nothing else changes in either (data, createdAt, expiresAt, size, and
\* manifest.totalSize); and whenever performCleanup runs, an entry accessed
\* more recently than another is removed only if the other is removed too.
C21_HitRefreshesLastAccessedAt ==
  [][/\ \A ns \in Namespaces, key \in Keys :
          (DidOn("get", ns, key) /\ last'.result.hit)
            => LET loc == GetFilePath(ns, key)
               IN /\ files'[loc] =
                       Some([files[loc][1] EXCEPT !.lastAccessedAt = ToISOString(now)])
                  /\ HasRow(Stored, loc)
                  /\ HasRow(GetManifest(DiskAfter), loc)
                  /\ Row(GetManifest(DiskAfter), loc) =
                       [Row(Stored, loc) EXCEPT !.lastAccessedAt = ToISOString(now)]
                  /\ GetManifest(DiskAfter).totalSize = Stored.totalSize
                  /\ OthersAsTheyWere(loc)
     /\ (nops' = nops + 1 /\ last'.cleanup # None)
          => \A r \in Removed', o \in Rows(CleanupArg') :
               DateOf(o.lastAccessedAt) < DateOf(r.lastAccessedAt)
                 => o \in Removed']_vars

\* A get at a later time than the set has been a hit: the file and the row
\* carry the time of the get, after the time of creation.
C21_Witness ==
  /\ last.op = "get"
  /\ last.result.hit
  /\ LastFile # NoFile
  /\ LastFile[1].lastAccessedAt = ToISOString(now)
  /\ DateOf(LastFile[1].createdAt) < now
  /\ Row(Stored, GetFilePath(last.ns, last.key)).lastAccessedAt = ToISOString(now)

\* No call is in progress.
Quiescent == \A p \in Procs : pc[p] = "idle"

\* C22: two overlapping getOrFetch calls for one key that both miss both
\* call their producer and both store; once both have returned, the entry
\* file and the manifest row of the key both reflect the later write, so they
\* describe the same entry.
C22_LaterWriteWinsFileAndRow ==
  Quiescent =>
    \A loc \in Locs :
      (files[loc] # NoFile /\ HasRow(Stored, loc)) => RowAgreesWithFile(loc)

\* The totalSize a set of the value under the key leaves: the sizes of the
\* other entries and the size of the serialized value.
LeftBySet(ns, key, data) ==
  SumOver({r \in Rows(Stored) : r.filePath # GetFilePath(ns, key)})
    + ByteLength(JSONStringify(data))

Dropped == {r \in Rows(Stored) : ~HasRow(GetManifest(DiskAfter), r.filePath)}

\* C24: purgeExpired(swr) removes exactly the entries with
\* now > expiresAt + swr, with their files, leaves every other entry (those
\* past their TTL but within the window included) as it was, and reduces
\* totalSize by the sum of the removed sizes; and a set removes no entry
\* unless it runs the cleanup, which then selects by lastAccessedAt alone.
C24_PurgeRemovesThePastWindow ==
  [][/\ \A swr \in {0, 1} :
          (Did("purgeExpired") /\ manifest # NoFile /\ PurgeExpiredOp(swr))
            => LET after == GetManifest(DiskAfter)
                   doomed == {r \in Rows(Stored) :
                                now > DateOf(r.expiresAt) + swr}
               IN /\ Dropped = doomed
                  /\ Rows(after) = Rows(Stored) \ doomed
                  /\ \A r \in doomed : files'[r.filePath] = NoFile
                  /\ \A loc \in Locs :
                       (\A r \in doomed : r.filePath # loc)
                         => files'[loc] = files[loc]
                  /\ after.totalSize = Stored.totalSize - SumOver(doomed)
                  /\ last'.result.entriesRemoved = Cardinality(doomed)
                  /\ last'.result.bytesFreed = SumOver(doomed)
     /\ Did("set")
          => \/ Dropped = {}
             \/ /\ last'.cleanup # None
                /\ \A r \in Dropped : \E q \in Removed' : q.filePath = r.filePath
                /\ \A q \in Removed', k \in Kept' :
                     DateOf(q.lastAccessedAt) <= DateOf(k.lastAccessedAt)]_vars

\* A purge with a window has removed an entry past the window and kept an
\* entry past its TTL but within the window.
C24_Witness ==
  /\ last.op = "purgeExpired"
  /\ last.error = None
  /\ last.result.entriesRemoved >= 1
  /\ \E r \in Rows(Stored) :
       /\ now > DateOf(r.expiresAt)
       /\ files[r.filePath] # NoFile

\* C25: after clearAll the manifest has no entries and totalSize 0 and keeps
\* its maxSize, no entry file of any namespace is left, and the result
\* reports as entriesRemoved the number of entries the manifest had, as
\* bytesFreed their total size, and newTotalSize 0.
C25_ClearAllEmptiesTheCache ==
  [][(Did("clearAll") /\ ClearAllOp)
       => LET after == GetManifest(DiskAfter)
          IN /\ after.entries = <<>>
             /\ after.totalSize = 0
             /\ after.maxSize = Stored.maxSize
             /\ \A loc \in Locs : files'[loc] = NoFile
             /\ last'.error = None
             /\ last'.result.entriesRemoved = Len(Stored.entries)
             /\ last'.result.bytesFreed = SumSizes(Stored.entries)
             /\ last'.result.bytesFreed = Stored.totalSize
             /\ last'.result.newTotalSize = 0]_vars

\* clearAll has removed entries of both namespaces.
C25_Witness ==
  /\ last.op = "clearAll"
  /\ last.error = None
  /\ last.result.entriesRemoved >= 2
  /\ last.result.bytesFreed >= 2
  /\ manifest # NoFile
  /\ Stored.entries = <<>>
  /\ dirs = {}

\* Process p runs a set whose row is in the manifest on disk.
RowOfSetVisible(p) ==
  /\ pc[p] \in {"SetSave", "SetWrite"}
  /\ HasRow(Stored, GetFilePath(locals[p].ns, locals[p].key))
  /\ Row(Stored, GetFilePath(locals[p].ns, locals[p].key))
       = NewRow(locals[p].ns, locals[p].key, locals[p].entry[1])

\* C26: within set the entry file is written before the manifest is saved:
\* whenever the manifest on disk holds the row a set in progress built, the
\* entry file of that set is written.
C26_FileBeforeRow ==
  \A p \in Procs :
    RowOfSetVisible(p)
      => files[GetFilePath(locals[p].ns, locals[p].key)]
           = Some(locals[p].entry[1])

\* C27: the totalSize of the manifest on disk is never negative, under any
\* interleaving of the steps of set, invalidate, clear and cleanup run by
\* two processes.
C27_TotalSizeNeverNegative ==
  (manifest # NoFile /\ Parses(manifest[1])) => manifest[1].totalSize >= 0

\* C28: after any set on an enabled cache returns normally, with no other
\* writer, totalSize is strictly below 0.90 x maxSize.
C28_SetLeavesBelowThreshold ==
  [][(Did("set") /\ ~disabled[last'.ns] /\ last'.error = None)
       => LET after == GetManifest(DiskAfter)
          IN /\ after.maxSize > 0
             /\ after.totalSize * 10 < after.maxSize * 9]_vars

\* C29: once clearNamespace or clearAll has removed the directory of a
\* namespace, a set of a value within the cap on the enabled instance of that
\* namespace, with no enable() in between, saves the manifest with its row
\* and the adjusted totalSize, then fails at the file write: it ends in an
\* error, and the row has no file.
C29_SetAfterPurgeLeavesRowWithoutFile ==
  [][\A ns \in Namespaces, key \in Keys, data \in Values :
       (/\ DidOn("set", ns, key)
        /\ ns \notin dirs
        /\ ~disabled[ns]
        /\ ~TooLarge(ns, data)
        /\ InstanceSet(ns, key, data))
         => LET loc == GetFilePath(ns, key)
                after == GetManifest(DiskAfter)
                size == ByteLength(JSONStringify(data))
                oldSize == IF HasRow(Stored, loc) THEN Row(Stored, loc).size
                           ELSE 0
            IN /\ last'.error = Some("ENOENT")
               /\ HasRow(after, loc)
               /\ Row(after, loc).size = size
               /\ Row(after, loc).lastAccessedAt = ToISOString(now)
               /\ after.totalSize = Stored.totalSize - oldSize + size
               /\ files'[loc] = NoFile
               /\ files' = files
               /\ last'.cleanup = None]_vars

\* A set after a purge has ended in an error, its row has no file, and the
\* manifest holds another row.
C29_Witness ==
  /\ last.op = "set"
  /\ last.error = Some("ENOENT")
  /\ last.ns \notin dirs
  /\ HasRow(Stored, GetFilePath(last.ns, last.key))
  /\ files[GetFilePath(last.ns, last.key)] = NoFile
  /\ Stored.totalSize = SumSizes(Stored.entries)
  /\ Len(Stored.entries) >= 2

\* The entry files that have no row in the manifest.
Untracked == {loc \in Locs : files[loc] # NoFile /\ ~HasRow(Stored, loc)}

\* What the entry file of the location says of a get at the time now: a hit
\* when the file exists and now is not past the end of its window.
FileSaysHit(loc) ==
  /\ files[loc] # NoFile
  /\ now <= DateOf(files[loc][1].expiresAt) + Config(loc[1]).defaultSWR

\* C30: get on an enabled instance decides hit or miss from the entry file
\* alone, never from the manifest, so that an entry whose file exists and
\* whose row is missing is a hit; such an entry is not counted by getStats,
\* not listed by keys, not removed by clear and not removed by the cleanup.
C30_GetDecidesFromTheFile ==
  [][/\ (Did("get") /\ ~disabled[last'.ns])
          => last'.result.hit = FileSaysHit(GetFilePath(last'.ns, last'.key))
     /\ (Did("getStats") /\ ~disabled[last'.ns])
          => last'.result.entryCount = Cardinality(RowsOf(last'.ns))
     /\ (Did("keys") /\ ~disabled[last'.ns])
          => {last'.result[i] : i \in 1..Len(last'.result)}
               = {Row(Stored, loc).key : loc \in RowsOf(last'.ns)}
     /\ (Did("clear") \/ Did("performCleanup") \/ Did("cleanupIfNeeded"))
          => \A loc \in Untracked : files'[loc] = files[loc]]_vars

=============================================================================
